---- MODULE Spec2Model ----
(***************************************************************************)
(* State-machine model of the F1 motion simulator's actuator side:         *)
(*   - SMCDriver        (src/src/drivers/smc_driver.py)                    *)
(*   - SMCDriverV2      (src/src/drivers/smc_driver_v2.py)                 *)
(*   - SafetyModule and EmergencyStop (src/src/utils/safety.py)            *)
(*                                                                         *)
(* Units.  Positions are integers in micrometres (0.001 mm), so that the   *)
(* driver's conversion int(position_mm * 100) to the controller's 0.01 mm  *)
(* unit is a truncating division and not the identity.  time.perf_counter  *)
(* is counted in ticks of 1/90 s (the command interval 1/30 s is 3 ticks); *)
(* time.time is counted in whole seconds (the e-stop timeout is 2.0 s).    *)
(* The two clocks are separate variables, as in the code.                  *)
(*                                                                         *)
(* The field bus.  Every Modbus operation the driver attempts is appended  *)
(* to bus (the operations of the driver call in progress, or of the most   *)
(* recent one), with ok = FALSE when the pymodbus call raised.  The        *)
(* operations of send_position are always logged; those of the lifecycle   *)
(* calls (connect, initialize, shutdown, close) are logged when tracing is *)
(* set, which the lifecycle specification does and the others do not: the  *)
(* log is an observer of the program, it does not change what it does.     *)
(***************************************************************************)
EXTENDS Integers, Sequences, FiniteSets, TLC

(* ------------------------------------------------------------------ *)
(* Bounds of the model                                                 *)
(* ------------------------------------------------------------------ *)
MaxPerfNow == 6        \* time.perf_counter() stays within 0..MaxPerfNow ticks
MaxCommands == 2       \* commands_sent and commands_skipped are each capped
MaxPolls == 2          \* unsuccessful polls of one _wait_for_input before it gives up
MaxSends == 3          \* send_position calls the observer records
MaxWallNow == 6        \* time.time() stays within 1..MaxWallNow seconds
MaxWarnings == 2       \* warning_count is capped
MaxCallbacks == 2      \* callbacks registered with one SafetyModule / with EmergencyStop
MaxFrames == 4         \* telemetry frames fed to one motion-algorithm instance between resets

(* ------------------------------------------------------------------ *)
(* Program constants                                                   *)
(* ------------------------------------------------------------------ *)
\* SMCCoils
SVON == 25             \* 0x19
RESET == 27            \* 0x1B
SETUP == 28            \* 0x1C
INPUT_INVALID == 48    \* 0x30
\* SMCInputs
BUSY == 72             \* 0x48
SVRE == 73             \* 0x49
SETON == 74            \* 0x4A
ALARM == 79            \* 0x4F, reverse logic: 0 = alarm
\* SMCRegisters
CURRENT_POSITION == 36864   \* 0x9000
OPERATION_START == 37120    \* 0x9100
MOVEMENT_MODE == 37122      \* 0x9102
SPEED == 37123              \* 0x9103
POSITION == 37124           \* 0x9104
ACCELERATION == 37126       \* 0x9106
DECELERATION == 37127       \* 0x9107
PUSHING_FORCE == 37128      \* 0x9108
TRIGGER_LEVEL == 37129      \* 0x9109
PUSHING_SPEED == 37130      \* 0x910A
MOVING_FORCE == 37131       \* 0x910B
AREA_1 == 37132             \* 0x910C
AREA_2 == 37134             \* 0x910E
IN_POSITION == 37136        \* 0x9110
START_WORD == 256           \* 0x0100 written to OPERATION_START

\* SMCConfig defaults, positions in micrometres
stroke_mm == 900000
center_mm == 450000
soft_limit_mm == 5000
default_speed == 500
default_accel == 3000
default_decel == 3000
POSITION_SCALE == 100       \* register units per mm
UmPerMm == 1000             \* micrometres per mm: the model's position unit
position_threshold == 500   \* the 0.5 mm threshold of send_position
command_interval == 3       \* 1.0 / command_rate_hz = 1/30 s, in perf ticks of 1/90 s
center_tolerance == 10000   \* the 10 mm tolerance of initialize's center check

command_rate_hz == 30       \* SMCConfig.command_rate_hz

\* DriverConfig (SMCDriverV2) defaults, positions in micrometres
v2_center_mm == 350000
v2_min_mm == 50000
v2_max_mm == 850000
v2_speed == 1000
v2_acceleration == 3000
NoRateLimit == 0            \* rate_limit_hz = None

min_position_mm == soft_limit_mm
max_position_mm == stroke_mm - soft_limit_mm

(* ------------------------------------------------------------------ *)
(* State                                                               *)
(* ------------------------------------------------------------------ *)
VARIABLES
    \* SMCDriver fields
    client,             \* self.client is not None
    connected,          \* self._connected
    initialized,        \* self._initialized
    last_command_time,  \* self._last_command_time (perf ticks)
    last_position,      \* self._last_position (micrometres)
    commands_sent,      \* self._commands_sent
    commands_skipped,   \* self._commands_skipped
    \* SMCDriverV2 fields
    v2_client,             \* self.client is not None
    v2_connected,          \* self.connected
    v2_last_command_time,  \* self.last_command_time (perf ticks)
    rate_limit_hz,         \* self.config.rate_limit_hz: "None" or a rate
    \* the single control thread
    pc,                 \* where the thread is inside a driver call; "idle" between calls
    call,               \* the driver call in progress, or the most recent one
    ret,                \* what the most recent finished call returned: "none", "true", "false", "raised"
    home_first,         \* initialize's argument
    closing,            \* shutdown is running inside close()
    polls,              \* unsuccessful polls so far in the current _wait_for_input
    wait_ret,           \* what the most recent wait function returned to its caller:
                        \* "true", "false", or "none" (None, or no wait yet)
    \* environment
    perfNow,            \* time.perf_counter()
    bus,                \* the bus operations of the current / most recent driver call
    tracing,            \* whether the observers are on: lifecycle calls log their bus
                        \* operations, send_position calls are recorded in sends
    sends,              \* observer: the send_position calls so far, [at, tx] each
    \* F1MotionSimulator (main.py)
    phase,              \* where main() is: "setup", "run_start", "run", "cleanup", "exit"
    running,            \* self._running
    ready,              \* self._ready
    dry_run,            \* self.dry_run (--dry-run): no driver is created
    signalled,          \* observer: _signal_handler has run (SIGINT or SIGTERM was delivered)
    \* Simulator (main_v2.py)
    sim_phase,          \* where Simulator.run() is: "connect", "loop", "shutdown", "exit", "crashed"
    sim_running,        \* self.running
    \* SafetyModule fields
    estopped,           \* self._estopped
    estop_time,         \* self._estop_time (wall seconds), NoTime for None
    estop_callbacks,    \* self._estop_callbacks: what each callback does, "ok" or "raises"
    warning_count,      \* self._warning_count
    \* EmergencyStop class attributes
    es_active,          \* EmergencyStop._active
    es_trigger_time,    \* EmergencyStop._trigger_time, NoTime for None
    es_callbacks,       \* EmergencyStop._callbacks
    \* calls into the safety layer
    callbacks_run,      \* the callbacks the most recent trigger invoked, in order
    safety_call,        \* the most recent SafetyModule / EmergencyStop call
    safety_ret,         \* its boolean result: "none", "true", "false"
    value_arg,          \* its position argument (micrometres), 0 if it has none
    value_ret,          \* its position result (micrometres), 0 if it has none
    wallNow,            \* time.time() (seconds)
    \* the motion algorithm of the pipeline
    algorithm,          \* MotionAlgorithm: its _last_input, the filter's _prev_input and
                        \* _prev_output, and _current_position
    algorithm2,         \* MotionAlgorithmV2: smoothed_g and last_g_force
    frames,             \* observer: g_force_longitudinal of the frames fed to the instance
                        \* since it was constructed or last reset (milli-g)
    motion_call,        \* observer: the most recent call, [fn, raw, out]: raw is what
                        \* the call passed on to its filter stage, out what it returned
    was_reset,          \* observer: reset() has been called on the instance
    \* the 32-bit register codec
    codec               \* observer: the most recent _write_int32 / _read_int32 call:
                        \* [fn, value, words, read], value the integer written, words
                        \* the registers emitted, read what _read_int32 returned

driverFields == <<client, connected, initialized, last_command_time, last_position,
                  commands_sent, commands_skipped>>

v2Fields == <<v2_client, v2_connected, v2_last_command_time, rate_limit_hz>>

motionVars == <<algorithm, algorithm2, frames, motion_call, was_reset>>

mainFields == <<phase, running, ready, dry_run, signalled, motionVars, codec>>

simFields == <<sim_phase, sim_running>>

safetyFields == <<estopped, estop_time, estop_callbacks, warning_count>>

esFields == <<es_active, es_trigger_time, es_callbacks>>

safetyVars == <<safetyFields, esFields, callbacks_run, safety_call, safety_ret,
                value_arg, value_ret, wallNow>>

\* What the driver's actions leave alone besides the driver.
outside == <<sends, mainFields, simFields, safetyVars>>

driverVars == <<driverFields, v2Fields, pc, call, ret, home_first, closing,
                polls, wait_ret, perfNow, bus, tracing>>

vars == <<driverVars, outside>>

(* ------------------------------------------------------------------ *)
(* Bus operations                                                      *)
(* ------------------------------------------------------------------ *)
\* One attempted Modbus operation. val is the sequence of words written or read.
BusOp(kind, addr, val, ok) == [op |-> kind, addr |-> addr, val |-> val, ok |-> ok]

Bit(b) == IF b THEN 1 ELSE 0

\* _write_coil
WriteCoil(addr, value, ok) == BusOp("write_coil", addr, <<Bit(value)>>, ok)

\* _write_register
WriteRegister(addr, value, ok) == BusOp("write_register", addr, <<value>>, ok)

\* (mutant: the low word is emitted first)
M_PackInt32_low_word_first(value) == <<value % 65536, (value \div 65536) % 65536>>

\* struct.pack('>i', value) then struct.unpack('>HH', ...): the two 16-bit
\* words of the 32-bit two's-complement encoding, high word first.
\* (\div is floor division and % the non-negative remainder, so a negative
\* value yields the words of value + 2^32 without forming that number.)
PackInt32(value) == <<(value \div 65536) % 65536, value % 65536>>

\* struct.unpack('>i', struct.pack('>HH', high, low))
UnpackInt32(regs) ==
    IF regs[1] >= 32768
    THEN (regs[1] - 65536) * 65536 + regs[2]
    ELSE regs[1] * 65536 + regs[2]

\* _write_int32
WriteInt32(addr, value, ok) == BusOp("write_registers", addr, PackInt32(value), ok)

\* _read_input: the bit read
ReadInput(addr, bit, ok) == BusOp("read_input", addr, <<Bit(bit)>>, ok)

\* _read_int32 of two holding registers
ReadInt32(addr, value, ok) == BusOp("read_registers", addr, PackInt32(value), ok)

\* Logging the operations ops of a lifecycle call.
Log(ops) == IF tracing THEN bus \o ops ELSE bus

IsWrite(e) == e.op \in {"write_coil", "write_register", "write_registers"}

\* int(position_mm * self.POSITION_SCALE): truncation toward zero
PositionUnits(position_mm) ==
    LET scaled == position_mm * POSITION_SCALE
    IN  IF scaled >= 0 THEN scaled \div UmPerMm ELSE -((-scaled) \div UmPerMm)

\* The register writes of _send_position_command / _move_to_position, in order.
StepDataWrites(position_mm, speed) ==
    << WriteRegister(MOVEMENT_MODE, 1, TRUE),
       WriteRegister(SPEED, speed, TRUE),
       WriteInt32(POSITION, PositionUnits(position_mm), TRUE),
       WriteRegister(ACCELERATION, default_accel, TRUE),
       WriteRegister(DECELERATION, default_decel, TRUE),
       WriteRegister(PUSHING_FORCE, 0, TRUE),
       WriteRegister(TRIGGER_LEVEL, 0, TRUE),
       WriteRegister(PUSHING_SPEED, 20, TRUE),
       WriteRegister(MOVING_FORCE, 100, TRUE),
       WriteInt32(AREA_1, 0, TRUE),
       WriteInt32(AREA_2, 0, TRUE),
       WriteInt32(IN_POSITION, 100, TRUE),
       WriteRegister(OPERATION_START, START_WORD, TRUE) >>

\* _send_position_command: all step data, then the start trigger
SendPositionCommandWrites(position_mm) == StepDataWrites(position_mm, default_speed)

\* How a sequence of writes may end, as the number of writes that succeed:
\* all of them, or the pymodbus call raises at the first write, at the third
\* (the position, in a step-data block) or at the last (the start word).
Outcomes(ws) == {k \in 0..Len(ws) : k \in {0, 2, Len(ws) - 1, Len(ws)}}

\* The first k operations of ws succeed; when k < Len(ws) operation k+1 raises.
Attempted(ws, k) ==
    IF k >= Len(ws) THEN ws
    ELSE SubSeq(ws, 1, k) \o <<[ws[k + 1] EXCEPT !.ok = FALSE]>>

(* ------------------------------------------------------------------ *)
(* Inputs                                                              *)
(* ------------------------------------------------------------------ *)
NaN == -999999999           \* float('nan'): a position that is not a number

\* Python's a < b and a > b on floats: False whenever an operand is NaN.
FloatLess(a, b) == a # NaN /\ b # NaN /\ a < b

FloatGreater(a, b) == a # NaN /\ b # NaN /\ a > b

\* Targets handed to send_position (micrometres): below and above the soft
\* limits, both limits, center, points just inside and at the threshold, and
\* a target that is not a number.
Targets == {0, 5000, 449600, 450000, 450505, 895000, 900000, NaN}

(* ------------------------------------------------------------------ *)
(* SMCDriver.send_position                                             *)
(* ------------------------------------------------------------------ *)
Min(a, b) == IF a < b THEN a ELSE b
Max(a, b) == IF a > b THEN a ELSE b
Abs(a) == IF a < 0 THEN -a ELSE a

\* (mutant: only the lower soft limit is enforced)
M_ClampToSoftLimits_lower_only(position_mm) ==
    IF FloatGreater(position_mm, min_position_mm) THEN position_mm ELSE min_position_mm

\* max(min_position_mm, min(max_position_mm, position_mm)): min and max return
\* their first argument unless the second compares below (above) it
ClampToSoftLimits(position_mm) ==
    LET inner == IF FloatLess(position_mm, max_position_mm)
                 THEN position_mm ELSE max_position_mm
    IN  IF FloatGreater(inner, min_position_mm) THEN inner ELSE min_position_mm

\* Mutant: the rate limit lets a command through one tick early.
M_RateLimited_early(now) == now - last_command_time < command_interval - 1

\* elapsed < self._command_interval
RateLimited(now) == now - last_command_time < command_interval

\* abs(position_mm - self._last_position) < 0.5
BelowThreshold(position_mm) == Abs(position_mm - last_position) < position_threshold

\* The observer's record of one send_position call: when it was made, whether
\* it transmitted a complete position command (every register write up to and
\* including the start word succeeded) and whether it returned True.
Recorded(transmitted, returned) ==
    IF tracing
    THEN Append(sends, [at |-> perfNow, tx |-> transmitted, ok |-> returned])
    ELSE sends

\* Mutant: a rate-limited call restarts the rate limit's clock.
M_send_position_skip_marks_time(position_mm) ==
    /\ pc = "idle"
    /\ commands_sent < MaxCommands
    /\ commands_skipped < MaxCommands
    /\ Len(sends) < MaxSends
    /\ call' = "send_position"
    /\ UNCHANGED <<client, connected, initialized, v2Fields, pc, home_first, closing, polls,
                   perfNow, tracing, wait_ret, mainFields, simFields, safetyVars>>
    /\ IF ~connected
       THEN /\ ret' = "false"
            /\ bus' = <<>>
            /\ sends' = Recorded(FALSE, FALSE)
            /\ UNCHANGED <<last_command_time, last_position, commands_sent, commands_skipped>>
       ELSE IF RateLimited(perfNow)
       THEN /\ commands_skipped' = commands_skipped + 1
            /\ ret' = "true"
            /\ bus' = <<>>
            /\ sends' = Recorded(FALSE, TRUE)
            /\ last_command_time' = perfNow
            /\ UNCHANGED <<last_position, commands_sent>>
       ELSE IF BelowThreshold(ClampToSoftLimits(position_mm))
       THEN /\ commands_skipped' = commands_skipped + 1
            /\ ret' = "true"
            /\ bus' = <<>>
            /\ sends' = Recorded(FALSE, TRUE)
            /\ UNCHANGED <<last_command_time, last_position, commands_sent>>
       ELSE LET p == ClampToSoftLimits(position_mm)
                ws == SendPositionCommandWrites(p)
            IN  \E k \in Outcomes(ws) :
                  /\ bus' = Attempted(ws, k)
                  /\ sends' = Recorded(k = Len(ws), k = Len(ws))
                  /\ IF k = Len(ws)
                     THEN /\ last_command_time' = perfNow
                          /\ last_position' = p
                          /\ commands_sent' = commands_sent + 1
                          /\ ret' = "true"
                          /\ UNCHANGED commands_skipped
                     ELSE /\ ret' = "false"
                          /\ UNCHANGED <<last_command_time, last_position,
                                         commands_sent, commands_skipped>>

\* Mutant: a call skipped by the 0.5 mm threshold is not counted.
M_send_position_threshold_skip_uncounted(position_mm) ==
    /\ pc = "idle"
    /\ commands_sent < MaxCommands
    /\ commands_skipped < MaxCommands
    /\ Len(sends) < MaxSends
    /\ call' = "send_position"
    /\ UNCHANGED <<client, connected, initialized, v2Fields, pc, home_first, closing, polls,
                   perfNow, tracing, wait_ret, mainFields, simFields, safetyVars>>
    /\ IF ~connected
       THEN /\ ret' = "false"
            /\ bus' = <<>>
            /\ sends' = Recorded(FALSE, FALSE)
            /\ UNCHANGED <<last_command_time, last_position, commands_sent, commands_skipped>>
       ELSE IF RateLimited(perfNow)
       THEN /\ commands_skipped' = commands_skipped + 1
            /\ ret' = "true"
            /\ bus' = <<>>
            /\ sends' = Recorded(FALSE, TRUE)
            /\ UNCHANGED <<last_command_time, last_position, commands_sent>>
       ELSE IF BelowThreshold(ClampToSoftLimits(position_mm))
       THEN /\ ret' = "true"
            /\ bus' = <<>>
            /\ sends' = Recorded(FALSE, TRUE)
            /\ UNCHANGED <<last_command_time, last_position, commands_sent,
                           commands_skipped>>
       ELSE LET p == ClampToSoftLimits(position_mm)
                ws == SendPositionCommandWrites(p)
            IN  \E k \in Outcomes(ws) :
                  /\ bus' = Attempted(ws, k)
                  /\ sends' = Recorded(k = Len(ws), k = Len(ws))
                  /\ IF k = Len(ws)
                     THEN /\ last_command_time' = perfNow
                          /\ last_position' = p
                          /\ commands_sent' = commands_sent + 1
                          /\ ret' = "true"
                          /\ UNCHANGED commands_skipped
                     ELSE /\ ret' = "false"
                          /\ UNCHANGED <<last_command_time, last_position,
                                         commands_sent, commands_skipped>>

send_position(position_mm) ==
    /\ pc = "idle"
    /\ commands_sent < MaxCommands
    /\ commands_skipped < MaxCommands
    /\ Len(sends) < MaxSends
    /\ call' = "send_position"
    /\ UNCHANGED <<client, connected, initialized, v2Fields, pc, home_first, closing, polls,
                   perfNow, tracing, wait_ret, mainFields, simFields, safetyVars>>
    /\ IF ~connected
       THEN /\ ret' = "false"
            /\ bus' = <<>>
            /\ sends' = Recorded(FALSE, FALSE)
            /\ UNCHANGED <<last_command_time, last_position, commands_sent, commands_skipped>>
       ELSE IF RateLimited(perfNow)
       THEN /\ commands_skipped' = commands_skipped + 1
            /\ ret' = "true"
            /\ bus' = <<>>
            /\ sends' = Recorded(FALSE, TRUE)
            /\ UNCHANGED <<last_command_time, last_position, commands_sent>>
       ELSE IF BelowThreshold(ClampToSoftLimits(position_mm))
       THEN /\ commands_skipped' = commands_skipped + 1
            /\ ret' = "true"
            /\ bus' = <<>>
            /\ sends' = Recorded(FALSE, TRUE)
            /\ UNCHANGED <<last_command_time, last_position, commands_sent>>
       ELSE LET p == ClampToSoftLimits(position_mm)
                ws == SendPositionCommandWrites(p)
            IN  \E k \in Outcomes(ws) :
                  /\ bus' = Attempted(ws, k)
                  /\ sends' = Recorded(k = Len(ws), k = Len(ws))
                  /\ IF k = Len(ws)
                     THEN /\ last_command_time' = perfNow
                          /\ last_position' = p
                          /\ commands_sent' = commands_sent + 1
                          /\ ret' = "true"
                          /\ UNCHANGED commands_skipped
                     ELSE /\ ret' = "false"
                          /\ UNCHANGED <<last_command_time, last_position,
                                         commands_sent, commands_skipped>>

(* ------------------------------------------------------------------ *)
(* SMCDriver.connect                                                   *)
(* ------------------------------------------------------------------ *)
\* Register values (0.01 mm) the controller may report as current position.
ReportedPositions == {0, 45000, 46000, 46001}

connect ==
    /\ pc = "idle"
    /\ call' = "connect"
    /\ UNCHANGED <<initialized, last_command_time, last_position, commands_sent,
                   commands_skipped, v2Fields, pc, home_first, closing, polls, perfNow, tracing, wait_ret, outside>>
    /\ \/ \* ModbusSerialClient(...) raises
          /\ ret' = "false"
          /\ bus' = <<>>
          /\ UNCHANGED <<client, connected>>
       \/ \* client.connect() returns False
          /\ client' = TRUE
          /\ ret' = "false"
          /\ bus' = <<>>
          /\ UNCHANGED connected
       \/ \* link opened; the read-back test may fail, which is only logged
          /\ client' = TRUE
          /\ connected' = TRUE
          /\ ret' = "true"
          /\ \E v \in ReportedPositions, ok \in BOOLEAN :
                bus' = IF tracing THEN <<ReadInt32(CURRENT_POSITION, v, ok)>> ELSE <<>>

(* ------------------------------------------------------------------ *)
(* Steps of a driver call that performs bus I/O                        *)
(* ------------------------------------------------------------------ *)
\* What a step inside initialize / shutdown leaves alone.
\* (wait_ret is set by the steps that end a wait.)
waitFrame == <<client, connected, last_command_time, last_position, commands_sent,
               commands_skipped, v2Fields, call, home_first, closing, perfNow, tracing, outside>>

\* What a step that is not the end of a wait leaves alone.
stepFrame == <<waitFrame, wait_ret>>

ShutdownLabels == {"shut_center", "shut_wait", "shut_svoff"}

\* SMCDriverV2.close has no exception handler
V2CloseLabels == {"v2_close_center", "v2_close_wait", "v2_close_svoff"}

\* shutdown() returns v; inside close() the thread goes on to release the link.
ShutdownReturn(v) ==
    /\ ret' = v
    /\ pc' = IF closing THEN "close_release" ELSE "idle"

\* initialize() returns v.
InitializeReturn(v) ==
    /\ ret' = v
    /\ pc' = "idle"

\* An exception raised by a bus operation: caught by the try/except of the
\* handler the thread is in (initialize: lines 296-298, shutdown: 448-450,
\* SMCDriverV2.connect: 144-146), which logs it and returns False; it leaves
\* SMCDriverV2.close, which has no handler.
Raised ==
    /\ polls' = 0
    /\ UNCHANGED initialized
    /\ IF pc \in ShutdownLabels THEN ShutdownReturn("false")
       ELSE IF pc \in V2CloseLabels THEN ret' = "raised" /\ pc' = "idle"
       ELSE InitializeReturn("false")

\* One bus operation at label; on success the thread goes on to next.
OpStep(label, e, next) ==
    /\ pc = label
    /\ UNCHANGED stepFrame
    /\ \E ok \in BOOLEAN :
          /\ bus' = Log(<<[e EXCEPT !.ok = ok]>>)
          /\ IF ok
             THEN /\ pc' = next
                  /\ UNCHANGED <<ret, polls, initialized>>
             ELSE Raised

\* _move_to_position's register writes at label (each may raise).
MoveStep(label, position_mm, speed, next) ==
    /\ pc = label
    /\ UNCHANGED stepFrame
    /\ LET ws == StepDataWrites(position_mm, speed)
       IN  \E k \in Outcomes(ws) :
              /\ bus' = Log(Attempted(ws, k))
              /\ IF k = Len(ws)
                 THEN /\ pc' = next
                      /\ UNCHANGED <<ret, polls, initialized>>
                 ELSE Raised

\* _wait_for_input(address, expected, timeout), one loop iteration per step:
\* the input is read and compared; the loop ends with True when it matches and
\* with False once the timeout has elapsed (after at least one poll, and in
\* the model after at most MaxPolls unsuccessful ones).
WaitForInputStep(label, address, expected, onTrue, onFalse) ==
    /\ pc = label
    /\ UNCHANGED waitFrame
    /\ \/ /\ bus' = Log(<<ReadInput(address, expected, TRUE)>>)
          /\ polls' = 0
          /\ pc' = onTrue
          /\ wait_ret' = "true"
          /\ UNCHANGED <<ret, initialized>>
       \/ /\ polls < MaxPolls
          /\ bus' = Log(<<ReadInput(address, ~expected, TRUE)>>)
          /\ polls' = polls + 1
          /\ UNCHANGED <<pc, ret, initialized, wait_ret>>
       \/ /\ bus' = Log(<<ReadInput(address, expected, FALSE)>>)
          /\ UNCHANGED wait_ret
          /\ Raised
       \/ /\ polls >= 1
          /\ polls' = 0
          /\ wait_ret' = "false"
          /\ UNCHANGED <<bus, initialized>>
          /\ IF onFalse = "return_false"
             THEN InitializeReturn("false")
             ELSE pc' = onFalse /\ UNCHANGED ret

\* SMCDriverV2._wait_complete(timeout), one loop iteration per step: it
\* returns (None) when BUSY reads clear, and falls off the end of the loop
\* (None again) once the timeout has elapsed.
WaitCompleteStep(label, next) ==
    /\ pc = label
    /\ UNCHANGED waitFrame
    /\ \/ /\ bus' = Log(<<ReadInput(BUSY, FALSE, TRUE)>>)
          /\ polls' = 0
          /\ pc' = next
          /\ wait_ret' = "none"
          /\ UNCHANGED <<ret, initialized>>
       \/ /\ polls < MaxPolls
          /\ bus' = Log(<<ReadInput(BUSY, TRUE, TRUE)>>)
          /\ polls' = polls + 1
          /\ UNCHANGED <<pc, ret, initialized, wait_ret>>
       \/ /\ bus' = Log(<<ReadInput(BUSY, FALSE, FALSE)>>)
          /\ UNCHANGED wait_ret
          /\ Raised
       \/ /\ polls >= 1
          /\ polls' = 0
          /\ pc' = next
          /\ wait_ret' = "none"
          /\ UNCHANGED <<bus, initialized, ret>>

(* ------------------------------------------------------------------ *)
(* SMCDriver.initialize                                                *)
(* ------------------------------------------------------------------ *)
initialize(home) ==
    /\ pc = "idle"
    /\ call' = "initialize"
    /\ home_first' = home
    /\ bus' = <<>>
    /\ UNCHANGED <<driverFields, v2Fields, closing, polls, perfNow, tracing, wait_ret, outside>>
    /\ IF ~connected
       THEN ret' = "false" /\ pc' = "idle"
       ELSE ret' = "none" /\ pc' = "init_serial"

\* Step 1: enable serial mode
init_serial == OpStep("init_serial", WriteCoil(INPUT_INVALID, TRUE, TRUE), "init_alarm")

\* Step 2: _is_alarm() reads ALARM (0 = alarm); _reset_alarm() if active
init_alarm ==
    /\ pc = "init_alarm"
    /\ UNCHANGED stepFrame
    /\ \E bit \in BOOLEAN, ok \in BOOLEAN :
          /\ bus' = Log(<<ReadInput(ALARM, bit, ok)>>)
          /\ IF ok
             THEN /\ pc' = IF ~bit THEN "init_reset_on" ELSE "init_svon"
                  /\ UNCHANGED <<ret, polls, initialized>>
             ELSE Raised

\* (mutant: the reset coil is asserted and left asserted)
M_init_reset_on_without_release ==
    OpStep("init_reset_on", WriteCoil(RESET, TRUE, TRUE), "init_svon")

init_reset_on == OpStep("init_reset_on", WriteCoil(RESET, TRUE, TRUE), "init_reset_off")

init_reset_off == OpStep("init_reset_off", WriteCoil(RESET, FALSE, TRUE), "init_svon")

\* Step 3: servo on, wait for servo ready
init_svon == OpStep("init_svon", WriteCoil(SVON, TRUE, TRUE), "init_wait_svre")

\* (variant: a servo-ready timeout is logged and initialize goes on to the
\* center move)
M_init_wait_svre_goes_on ==
    WaitForInputStep("init_wait_svre", SVRE, TRUE,
                     IF home_first THEN "init_setup_on" ELSE "init_center",
                     "init_center")

init_wait_svre ==
    WaitForInputStep("init_wait_svre", SVRE, TRUE,
                     IF home_first THEN "init_setup_on" ELSE "init_center",
                     "return_false")

\* Step 4: homing
init_setup_on == OpStep("init_setup_on", WriteCoil(SETUP, TRUE, TRUE), "init_wait_seton")

\* Mutant: initialize goes on to read the position and move to center without
\* clearing the SETUP coil.
M_init_wait_seton_no_clear ==
    WaitForInputStep("init_wait_seton", SETON, TRUE, "init_read_home", "return_false")

init_wait_seton ==
    WaitForInputStep("init_wait_seton", SETON, TRUE, "init_setup_off", "return_false")

\* the first statement that does I/O after SETON was observed
SetupClearWrite == WriteCoil(SETUP, FALSE, TRUE)

\* Mutant: the position is read back before the coil is cleared.
M_init_setup_off_reads_first ==
    /\ pc = "init_setup_off"
    /\ UNCHANGED stepFrame
    /\ UNCHANGED <<ret, polls, initialized>>
    /\ pc' = "init_center"
    /\ \E v \in ReportedPositions :
          bus' = Log(<<ReadInt32(CURRENT_POSITION, v, TRUE), SetupClearWrite>>)

init_setup_off == OpStep("init_setup_off", SetupClearWrite, "init_read_home")

init_read_home ==
    \E v \in ReportedPositions :
        OpStep("init_read_home", ReadInt32(CURRENT_POSITION, v, TRUE), "init_center")

\* Step 5: move to center, wait (the wait's result is not looked at)
init_center == MoveStep("init_center", center_mm, 300, "init_center_wait")

init_center_wait ==
    WaitForInputStep("init_center_wait", BUSY, FALSE, "init_read_center", "init_read_center")

\* read_position() in mm, here micrometres
PositionMm(units) == (units * UmPerMm) \div POSITION_SCALE

\* (mutant: a position exactly 10 mm off center is retried as well)
M_NeedsCenterRetry_inclusive(units) ==
    Abs(PositionMm(units) - center_mm) >= center_tolerance

\* abs(pos - self.config.center_mm) > 10
NeedsCenterRetry(units) == Abs(PositionMm(units) - center_mm) > center_tolerance

init_read_center ==
    /\ pc = "init_read_center"
    /\ UNCHANGED stepFrame
    /\ \E v \in ReportedPositions, ok \in BOOLEAN :
          /\ bus' = Log(<<ReadInt32(CURRENT_POSITION, v, ok)>>)
          /\ IF ~ok THEN Raised
             ELSE IF NeedsCenterRetry(v)
             THEN /\ pc' = "init_retry"
                  /\ UNCHANGED <<ret, polls, initialized>>
             ELSE /\ initialized' = TRUE
                  /\ polls' = 0
                  /\ InitializeReturn("true")

init_retry == MoveStep("init_retry", center_mm, 300, "init_retry_wait")

init_retry_wait ==
    WaitForInputStep("init_retry_wait", BUSY, FALSE, "init_read_retry", "init_read_retry")

init_read_retry ==
    /\ pc = "init_read_retry"
    /\ UNCHANGED stepFrame
    /\ \E v \in ReportedPositions, ok \in BOOLEAN :
          /\ bus' = Log(<<ReadInt32(CURRENT_POSITION, v, ok)>>)
          /\ IF ~ok THEN Raised
             ELSE /\ initialized' = TRUE
                  /\ polls' = 0
                  /\ InitializeReturn("true")

(* ------------------------------------------------------------------ *)
(* SMCDriver.shutdown and close                                        *)
(* ------------------------------------------------------------------ *)
shutdown ==
    /\ pc = "idle"
    /\ call' = "shutdown"
    /\ bus' = <<>>
    /\ UNCHANGED <<driverFields, v2Fields, home_first, closing, polls, perfNow, tracing, wait_ret, outside>>
    /\ IF ~connected
       THEN ret' = "true" /\ pc' = "idle"
       ELSE ret' = "none" /\ pc' = "shut_center"

shut_center == MoveStep("shut_center", center_mm, 200, "shut_wait")

\* (mutant: a timeout of the wait ends shutdown before the servo is turned off)
M_shut_wait_timeout_aborts ==
    WaitForInputStep("shut_wait", BUSY, FALSE, "shut_svoff", "return_false")

\* _move_to_position(..., wait=True) discards the result of the wait: shutdown
\* goes on to the servo-off write whether BUSY cleared or the wait timed out
shut_wait == WaitForInputStep("shut_wait", BUSY, FALSE, "shut_svoff", "shut_svoff")

shut_svoff ==
    /\ pc = "shut_svoff"
    /\ UNCHANGED stepFrame
    /\ \E ok \in BOOLEAN :
          /\ bus' = Log(<<WriteCoil(SVON, FALSE, ok)>>)
          /\ IF ok
             THEN /\ initialized' = FALSE
                  /\ polls' = 0
                  /\ ShutdownReturn("true")
             ELSE Raised

close ==
    /\ pc = "idle"
    /\ call' = "close"
    /\ bus' = <<>>
    /\ ret' = "none"
    /\ UNCHANGED <<driverFields, v2Fields, home_first, polls, perfNow, tracing, wait_ret, outside>>
    /\ IF ~client
       THEN pc' = "idle" /\ UNCHANGED closing
       ELSE IF initialized /\ connected
       THEN pc' = "shut_center" /\ closing' = TRUE
       ELSE pc' = "close_release" /\ closing' = TRUE

\* (mutant: the link is kept when the shutdown inside close failed)
M_close_release_only_after_clean_shutdown ==
    /\ pc = "close_release"
    /\ client' = (ret = "false")
    /\ connected' = (ret = "false")
    /\ closing' = FALSE
    /\ pc' = "idle"
    /\ ret' = "none"
    /\ UNCHANGED <<initialized, last_command_time, last_position, commands_sent,
                   commands_skipped, v2Fields, call, home_first, polls, perfNow, bus, tracing, wait_ret, outside>>

\* client.close() (an exception is logged), then the finally block
close_release ==
    /\ pc = "close_release"
    /\ client' = FALSE
    /\ connected' = FALSE
    /\ closing' = FALSE
    /\ pc' = "idle"
    /\ ret' = "none"
    /\ UNCHANGED <<initialized, last_command_time, last_position, commands_sent,
                   commands_skipped, v2Fields, call, home_first, polls, perfNow, bus, tracing, wait_ret, outside>>

(* ------------------------------------------------------------------ *)
(* SMCDriverV2                                                         *)
(* ------------------------------------------------------------------ *)
\* _write_registers(address, values)
WriteRegisters(addr, values, ok) == BusOp("write_registers", addr, values, ok)

\* _setup_motion_parameters
SetupMotionParameterWrites ==
    << WriteRegisters(MOVEMENT_MODE, <<1>>, TRUE),
       WriteRegisters(SPEED, <<v2_speed>>, TRUE),
       WriteRegisters(ACCELERATION, <<v2_acceleration>>, TRUE),
       WriteRegisters(DECELERATION, <<v2_acceleration>>, TRUE),
       WriteRegisters(PUSHING_FORCE, <<0>>, TRUE),
       WriteRegisters(TRIGGER_LEVEL, <<0>>, TRUE),
       WriteRegisters(PUSHING_SPEED, <<20>>, TRUE),
       WriteRegisters(MOVING_FORCE, <<100>>, TRUE),
       WriteInt32(AREA_1, 0, TRUE),
       WriteInt32(AREA_2, 0, TRUE),
       WriteInt32(IN_POSITION, 100, TRUE) >>

\* _move_to_full
MoveToFullWrites(position_mm) ==
    << WriteRegisters(MOVEMENT_MODE, <<1>>, TRUE),
       WriteRegisters(SPEED, <<v2_speed>>, TRUE),
       WriteInt32(POSITION, PositionUnits(position_mm), TRUE),
       WriteRegisters(ACCELERATION, <<v2_acceleration>>, TRUE),
       WriteRegisters(DECELERATION, <<v2_acceleration>>, TRUE),
       WriteRegisters(PUSHING_FORCE, <<0>>, TRUE),
       WriteRegisters(TRIGGER_LEVEL, <<0>>, TRUE),
       WriteRegisters(PUSHING_SPEED, <<20>>, TRUE),
       WriteRegisters(MOVING_FORCE, <<100>>, TRUE),
       WriteInt32(AREA_1, 0, TRUE),
       WriteInt32(AREA_2, 0, TRUE),
       WriteInt32(IN_POSITION, 100, TRUE),
       WriteRegisters(OPERATION_START, <<START_WORD>>, TRUE) >>

\* _move_to_fast: the position registers and the start trigger
MoveToFastWrites(position_mm) ==
    << WriteInt32(POSITION, PositionUnits(position_mm), TRUE),
       WriteRegisters(OPERATION_START, <<START_WORD>>, TRUE) >>

\* What a step inside SMCDriverV2.connect / close leaves alone.
v2StepFrame == <<driverFields, v2_client, v2_last_command_time, rate_limit_hz, call,
                 home_first, closing, perfNow, tracing, wait_ret, outside>>

\* A sequence of register writes at label (each may raise).
WritesStep(label, ws, next) ==
    /\ pc = label
    /\ UNCHANGED stepFrame
    /\ \E k \in Outcomes(ws) :
          /\ bus' = Log(Attempted(ws, k))
          /\ IF k = Len(ws)
             THEN /\ pc' = next
                  /\ UNCHANGED <<ret, polls, initialized>>
             ELSE Raised

\* for _ in range(N): if self._read_input(address): break ... else: return False
\* The loop gives up after N unsuccessful polls; the model's N is MaxPolls.
PollLoopStep(label, address, onTrue) ==
    /\ pc = label
    /\ UNCHANGED stepFrame
    /\ \/ /\ bus' = Log(<<ReadInput(address, TRUE, TRUE)>>)
          /\ polls' = 0
          /\ pc' = onTrue
          /\ UNCHANGED <<ret, initialized>>
       \/ /\ bus' = Log(<<ReadInput(address, FALSE, TRUE)>>)
          /\ UNCHANGED initialized
          /\ IF polls + 1 < MaxPolls
             THEN /\ polls' = polls + 1
                  /\ UNCHANGED <<pc, ret>>
             ELSE /\ polls' = 0
                  /\ InitializeReturn("false")
       \/ /\ bus' = Log(<<ReadInput(address, TRUE, FALSE)>>)
          /\ Raised

v2_connect ==
    /\ pc = "idle"
    /\ call' = "v2_connect"
    /\ bus' = <<>>
    /\ UNCHANGED <<driverFields, v2_connected, v2_last_command_time, rate_limit_hz,
                   home_first, closing, polls, perfNow, tracing, wait_ret, outside>>
    /\ \/ \* ModbusSerialClient(...) raises
          /\ ret' = "false"
          /\ UNCHANGED <<v2_client, pc>>
       \/ \* client.connect() returns False
          /\ v2_client' = TRUE
          /\ ret' = "false"
          /\ UNCHANGED pc
       \/ /\ v2_client' = TRUE
          /\ ret' = "none"
          /\ pc' = "v2_serial"

v2_serial == OpStep("v2_serial", WriteCoil(INPUT_INVALID, TRUE, TRUE), "v2_reset_on")

v2_reset_on == OpStep("v2_reset_on", WriteCoil(RESET, TRUE, TRUE), "v2_reset_off")

v2_reset_off == OpStep("v2_reset_off", WriteCoil(RESET, FALSE, TRUE), "v2_svon")

v2_svon == OpStep("v2_svon", WriteCoil(SVON, TRUE, TRUE), "v2_wait_svre")

v2_wait_svre == PollLoopStep("v2_wait_svre", SVRE, "v2_setup_on")

v2_setup_on == OpStep("v2_setup_on", WriteCoil(SETUP, TRUE, TRUE), "v2_wait_seton")

v2_wait_seton == PollLoopStep("v2_wait_seton", SETON, "v2_setup_off")

v2_setup_off == OpStep("v2_setup_off", WriteCoil(SETUP, FALSE, TRUE), "v2_reset2_on")

\* reset alarm from homing
v2_reset2_on == OpStep("v2_reset2_on", WriteCoil(RESET, TRUE, TRUE), "v2_reset2_off")

v2_reset2_off == OpStep("v2_reset2_off", WriteCoil(RESET, FALSE, TRUE), "v2_params")

v2_params == WritesStep("v2_params", SetupMotionParameterWrites, "v2_center")

v2_center == WritesStep("v2_center", MoveToFullWrites(v2_center_mm), "v2_center_wait")

\* _wait_complete returns nothing: the thread goes on whether BUSY cleared or not
v2_center_wait == WaitCompleteStep("v2_center_wait", "v2_ready")

\* self.connected = True, then _read_position() inside the print
v2_ready ==
    /\ pc = "v2_ready"
    /\ v2_connected' = TRUE
    /\ pc' = "idle"
    /\ polls' = 0
    /\ UNCHANGED v2StepFrame
    /\ \E v \in ReportedPositions, ok \in BOOLEAN :
          /\ bus' = Log(<<ReadInt32(CURRENT_POSITION, v, ok)>>)
          /\ ret' = IF ok THEN "true" ELSE "false"

\* max(self.config.min_mm, min(self.config.max_mm, position_mm)), evaluated
\* as Python does when position_mm is not a number
V2Clamp(position_mm) ==
    LET inner == IF FloatLess(position_mm, v2_max_mm) THEN position_mm ELSE v2_max_mm
    IN  IF FloatGreater(inner, v2_min_mm) THEN inner ELSE v2_min_mm

\* 1.0 / self.config.rate_limit_hz, in perf ticks
V2MinInterval == (command_interval * command_rate_hz) \div rate_limit_hz

v2_send_position(position_mm) ==
    /\ pc = "idle"
    /\ call' = "v2_send_position"
    /\ UNCHANGED <<driverFields, v2_client, v2_connected, rate_limit_hz, pc, home_first,
                   closing, polls, perfNow, tracing, wait_ret, outside>>
    /\ IF ~v2_connected
       THEN /\ ret' = "false"
            /\ bus' = <<>>
            /\ UNCHANGED v2_last_command_time
       ELSE IF rate_limit_hz # NoRateLimit /\ perfNow - v2_last_command_time < V2MinInterval
       THEN /\ ret' = "true"
            /\ bus' = <<>>
            /\ UNCHANGED v2_last_command_time
       ELSE /\ v2_last_command_time' =
                  IF rate_limit_hz # NoRateLimit THEN perfNow ELSE v2_last_command_time
            /\ LET ws == MoveToFastWrites(V2Clamp(position_mm))
               IN  \E k \in Outcomes(ws) :
                      /\ bus' = Attempted(ws, k)
                      /\ ret' = IF k = Len(ws) THEN "true" ELSE "raised"

v2_close ==
    /\ pc = "idle"
    /\ call' = "v2_close"
    /\ bus' = <<>>
    /\ ret' = "none"
    /\ pc' = IF v2_connected THEN "v2_close_center" ELSE "v2_close_release"
    /\ UNCHANGED <<driverFields, v2Fields, home_first, closing, polls, perfNow, tracing, wait_ret, outside>>

v2_close_center ==
    WritesStep("v2_close_center", MoveToFastWrites(v2_center_mm), "v2_close_wait")

v2_close_wait == WaitCompleteStep("v2_close_wait", "v2_close_svoff")

v2_close_svoff == OpStep("v2_close_svoff", WriteCoil(SVON, FALSE, TRUE), "v2_close_release")

\* if self.client: self.client.close(); self.connected = False
v2_close_release ==
    /\ pc = "v2_close_release"
    /\ pc' = "idle"
    /\ UNCHANGED <<v2StepFrame, polls, bus>>
    /\ \/ /\ v2_connected' = FALSE
          /\ ret' = "none"
       \/ /\ v2_client
          /\ ret' = "raised"
          /\ UNCHANGED v2_connected

(* ------------------------------------------------------------------ *)
(* SafetyModule and EmergencyStop (src/src/utils/safety.py)            *)
(* ------------------------------------------------------------------ *)
SMC_MIN_MM == 5000
SMC_MAX_MM == 895000
SMC_CENTER_MM == 450000
ESTOP_TIMEOUT_S == 2
DefaultResetTimeout == 2    \* EmergencyStop.reset(timeout=2.0)
NoTime == -1                \* None
SMC_MAX_SPEED_MM_S == 500   \* mm/s, which is micrometres per millisecond

\* Positions handed to clamp_smc_position (micrometres).
ClampInputs == {0, 4999, 5000, 300000, 450000, 895000, 895001, NaN}

\* Positions (micrometres) and time deltas (milliseconds) handed to limit_speed.
SpeedInputs == {0, 449500, 450000, 500000, NaN}

DtInputs == {-1, 0, 1, 100}

\* Timeouts handed to EmergencyStop.reset (seconds).
ResetTimeouts == {0, 1, DefaultResetTimeout, 3}

\* `if self._estop_time:` is Python truthiness: None and 0.0 both count as unset.
TimeIsSet(t) == t # NoTime /\ t # 0

\* What a registered callback does when it is invoked: return, or raise an
\* Exception.
CallbackKinds == {"ok", "raises"}

\* (variant without the try/except: the first callback that raises ends the
\* loop)
RECURSIVE M_InvokeAll_no_handler(_, _, _)
M_InvokeAll_no_handler(callbacks, i, invoked) ==
    IF i > Len(callbacks) THEN invoked
    ELSE IF callbacks[i].kind = "raises" THEN Append(invoked, callbacks[i])
    ELSE M_InvokeAll_no_handler(callbacks, i + 1, Append(invoked, callbacks[i]))

\* for callback in callbacks: try: callback() except Exception: log
\* The result is the callbacks that were invoked, in order.
RECURSIVE InvokeAll(_, _, _)
InvokeAll(callbacks, i, invoked) ==
    IF i > Len(callbacks) THEN invoked
    ELSE InvokeAll(callbacks, i + 1, Append(invoked, callbacks[i]))

\* (variant of the state property that forgets the warning counter)
M_SafetyStateOf_no_warning(latched, warnings) ==
    IF latched THEN "emergency_stop" ELSE "normal"

\* SafetyModule.state
SafetyStateOf(latched, warnings) ==
    IF latched THEN "emergency_stop"
    ELSE IF warnings > 0 THEN "warning"
    ELSE "normal"

state == SafetyStateOf(estopped, warning_count)

\* What a SafetyModule / EmergencyStop call leaves alone.
safetyFrame == <<driverVars, sends, mainFields, simFields, estop_callbacks, es_callbacks, wallNow>>

\* (variant: the limits themselves count as out of range)
M_clamp_smc_position_open_range(position_mm) ==
    /\ warning_count < MaxWarnings
    /\ safety_call' = "clamp_smc_position"
    /\ safety_ret' = "none"
    /\ value_arg' = position_mm
    /\ UNCHANGED <<safetyFrame, estopped, estop_time, esFields, callbacks_run>>
    /\ IF ~FloatGreater(position_mm, SMC_MIN_MM) /\ position_mm # NaN
       THEN /\ value_ret' = SMC_MIN_MM
            /\ warning_count' = warning_count + 1
       ELSE IF ~FloatLess(position_mm, SMC_MAX_MM) /\ position_mm # NaN
       THEN /\ value_ret' = SMC_MAX_MM
            /\ warning_count' = warning_count + 1
       ELSE /\ value_ret' = position_mm
            /\ UNCHANGED warning_count

clamp_smc_position(position_mm) ==
    /\ warning_count < MaxWarnings
    /\ safety_call' = "clamp_smc_position"
    /\ safety_ret' = "none"
    /\ value_arg' = position_mm
    /\ UNCHANGED <<safetyFrame, estopped, estop_time, esFields, callbacks_run>>
    /\ IF FloatLess(position_mm, SMC_MIN_MM)
       THEN /\ value_ret' = SMC_MIN_MM
            /\ warning_count' = warning_count + 1
       ELSE IF FloatGreater(position_mm, SMC_MAX_MM)
       THEN /\ value_ret' = SMC_MAX_MM
            /\ warning_count' = warning_count + 1
       ELSE /\ value_ret' = position_mm
            /\ UNCHANGED warning_count

\* (variant: the limited step is taken toward lower positions whatever the
\* direction of the request)
M_limit_speed_loses_sign(current_mm, target_mm, dt) ==
    /\ warning_count < MaxWarnings
    /\ safety_call' = "limit_speed"
    /\ safety_ret' = "none"
    /\ value_arg' = target_mm
    /\ UNCHANGED <<safetyFrame, estopped, estop_time, esFields, callbacks_run>>
    /\ IF dt <= 0
       THEN /\ value_ret' = current_mm
            /\ UNCHANGED warning_count
       ELSE LET max_change == SMC_MAX_SPEED_MM_S * dt
                actual_change ==
                    IF current_mm = NaN \/ target_mm = NaN THEN NaN
                    ELSE target_mm - current_mm
                magnitude == IF actual_change = NaN THEN NaN ELSE Abs(actual_change)
            IN  IF FloatGreater(magnitude, max_change)
                THEN /\ value_ret' = current_mm - max_change
                     /\ warning_count' = warning_count + 1
                ELSE /\ value_ret' = target_mm
                     /\ UNCHANGED warning_count

\* limit_speed(current_mm, target_mm, dt), dt in milliseconds
limit_speed(current_mm, target_mm, dt) ==
    /\ warning_count < MaxWarnings
    /\ safety_call' = "limit_speed"
    /\ safety_ret' = "none"
    /\ value_arg' = target_mm
    /\ UNCHANGED <<safetyFrame, estopped, estop_time, esFields, callbacks_run>>
    /\ IF dt <= 0
       THEN /\ value_ret' = current_mm
            /\ UNCHANGED warning_count
       ELSE LET max_change == SMC_MAX_SPEED_MM_S * dt
                actual_change ==
                    IF current_mm = NaN \/ target_mm = NaN THEN NaN
                    ELSE target_mm - current_mm
                magnitude == IF actual_change = NaN THEN NaN ELSE Abs(actual_change)
                direction == IF FloatGreater(actual_change, 0) THEN 1 ELSE -1
            IN  IF FloatGreater(magnitude, max_change)
                THEN /\ value_ret' = current_mm + direction * max_change
                     /\ warning_count' = warning_count + 1
                ELSE /\ value_ret' = target_mm
                     /\ UNCHANGED warning_count

trigger_estop ==
    /\ estopped' = TRUE
    /\ estop_time' = wallNow
    /\ callbacks_run' = InvokeAll(estop_callbacks, 1, <<>>)
    /\ safety_call' = "trigger_estop"
    /\ safety_ret' = "none"
    /\ value_arg' = 0
    /\ value_ret' = 0
    /\ UNCHANGED <<safetyFrame, warning_count, esFields>>

\* register_estop_callback(callback): the callback is the id-th registered
register_estop_callback(kind) ==
    /\ Len(estop_callbacks) < MaxCallbacks
    /\ estop_callbacks' = Append(estop_callbacks, [id |-> Len(estop_callbacks) + 1, kind |-> kind])
    /\ safety_call' = "register_estop_callback"
    /\ safety_ret' = "none"
    /\ value_arg' = 0
    /\ value_ret' = 0
    /\ UNCHANGED <<driverVars, sends, mainFields, simFields, wallNow, estopped, estop_time,
                   warning_count, esFields, callbacks_run>>

\* EmergencyStop.register_callback(callback)
EmergencyStop_register_callback(kind) ==
    /\ Len(es_callbacks) < MaxCallbacks
    /\ es_callbacks' = Append(es_callbacks, [id |-> Len(es_callbacks) + 1, kind |-> kind])
    /\ safety_call' = "EmergencyStop.register_callback"
    /\ safety_ret' = "none"
    /\ value_arg' = 0
    /\ value_ret' = 0
    /\ UNCHANGED <<driverVars, sends, mainFields, simFields, wallNow, safetyFields,
                   es_active, es_trigger_time, callbacks_run>>

\* elapsed < self.ESTOP_TIMEOUT_S
ResetTooEarly == TimeIsSet(estop_time) /\ wallNow - estop_time < ESTOP_TIMEOUT_S

\* (variant of reset_estop without the timeout check)
M_reset_estop_no_timeout ==
    /\ safety_call' = "reset_estop"
    /\ value_arg' = 0
    /\ value_ret' = 0
    /\ UNCHANGED <<safetyFrame, warning_count, esFields, callbacks_run>>
    /\ estopped' = FALSE
    /\ estop_time' = NoTime
    /\ safety_ret' = "true"

reset_estop ==
    /\ safety_call' = "reset_estop"
    /\ value_arg' = 0
    /\ value_ret' = 0
    /\ UNCHANGED <<safetyFrame, warning_count, esFields, callbacks_run>>
    /\ IF ResetTooEarly
       THEN /\ safety_ret' = "false"
            /\ UNCHANGED <<estopped, estop_time>>
       ELSE /\ estopped' = FALSE
            /\ estop_time' = NoTime
            /\ safety_ret' = "true"

EmergencyStop_trigger ==
    /\ es_active' = TRUE
    /\ es_trigger_time' = wallNow
    /\ callbacks_run' = InvokeAll(es_callbacks, 1, <<>>)
    /\ safety_call' = "EmergencyStop.trigger"
    /\ safety_ret' = "none"
    /\ value_arg' = 0
    /\ value_ret' = 0
    /\ UNCHANGED <<safetyFrame, safetyFields, es_callbacks>>

\* elapsed < timeout
ClassResetTooEarly(timeout) ==
    TimeIsSet(es_trigger_time) /\ wallNow - es_trigger_time < timeout

EmergencyStop_reset(timeout) ==
    /\ safety_call' = "EmergencyStop.reset"
    /\ value_arg' = 0
    /\ value_ret' = 0
    /\ UNCHANGED <<safetyFrame, safetyFields, es_callbacks, callbacks_run>>
    /\ IF ClassResetTooEarly(timeout)
       THEN /\ safety_ret' = "false"
            /\ UNCHANGED <<es_active, es_trigger_time>>
       ELSE /\ es_active' = FALSE
            /\ es_trigger_time' = NoTime
            /\ safety_ret' = "true"

\* time.time() between calls; the model's wall clock does not step back.
WallTick ==
    /\ wallNow < MaxWallNow
    /\ wallNow' = wallNow + 1
    /\ UNCHANGED <<driverVars, sends, mainFields, simFields, safetyFields, esFields, callbacks_run,
                   safety_call, safety_ret, value_arg, value_ret>>

(* ------------------------------------------------------------------ *)
(* F1MotionSimulator (src/src/main.py)                                 *)
(* ------------------------------------------------------------------ *)
\* main() runs setup(), then run(), whose finally block runs cleanup().  Within
\* a phase the simulator's position is given by the driver call it made last
\* (call) and what that call returned (ret); the driver's own steps leave the
\* phase alone, the simulator being inside the call.

\* setup(): self.driver.connect()
setup_connect ==
    /\ phase = "setup"
    /\ ~dry_run
    /\ call = "none"
    /\ connect

\* setup(): self.driver.initialize(home_first=True)
setup_initialize ==
    /\ phase = "setup"
    /\ call = "connect"
    /\ ret = "true"
    /\ initialize(TRUE)

\* setup() returns False; main() logs and calls sys.exit(1)
setup_failed ==
    /\ phase = "setup"
    /\ pc = "idle"
    /\ call \in {"connect", "initialize"}
    /\ ret = "false"
    /\ phase' = "exit"
    /\ UNCHANGED <<driverVars, sends, running, ready, dry_run, motionVars, codec, signalled, simFields, safetyVars>>

\* (variant: setup() goes on whatever initialize returned)
M_setup_done_ignores_result ==
    /\ phase = "setup"
    /\ \/ dry_run
       \/ pc = "idle" /\ call = "initialize" /\ ret \in {"true", "false"}
    /\ ready' = TRUE
    /\ phase' = "run_start"
    /\ UNCHANGED <<driverVars, sends, running, dry_run, motionVars, codec, signalled, simFields, safetyVars>>

\* setup(): self._ready = True; return True, reached after initialize
\* returned True or, in a dry run, without creating a driver
setup_done ==
    /\ phase = "setup"
    /\ \/ dry_run
       \/ pc = "idle" /\ call = "initialize" /\ ret = "true"
    /\ ready' = TRUE
    /\ phase' = "run_start"
    /\ UNCHANGED <<driverVars, sends, running, dry_run, motionVars, codec, signalled, simFields, safetyVars>>

\* run(): if not self._ready: return; self._running = True
run_start ==
    /\ phase = "run_start"
    /\ IF ready
       THEN running' = TRUE /\ phase' = "run"
       ELSE phase' = "exit" /\ UNCHANGED running
    /\ UNCHANGED <<driverVars, sends, ready, dry_run, motionVars, codec, signalled, simFields, safetyVars>>

\* run(): one iteration of the loop that received a motion packet:
\* self.driver.send_position(target_position)
\* (`if not self.dry_run and self.driver`: a dry run's iterations touch no
\* driver and none of the state modelled here)
run_send_position(position_mm) ==
    /\ phase = "run"
    /\ running
    /\ ~dry_run
    /\ send_position(position_mm)

\* run(): `while self._running` ends; the finally block calls cleanup()
run_loop_exit ==
    /\ phase = "run"
    /\ ~running
    /\ pc = "idle"
    /\ phase' = "cleanup"
    /\ UNCHANGED <<driverVars, sends, running, ready, dry_run, motionVars, codec, signalled, simFields, safetyVars>>

\* cleanup(): self.driver.shutdown()
cleanup_shutdown ==
    /\ phase = "cleanup"
    /\ ~dry_run
    /\ call \notin {"shutdown", "close"}
    /\ shutdown

\* cleanup(): self.driver.close()
cleanup_close ==
    /\ phase = "cleanup"
    /\ call = "shutdown"
    /\ close

\* (`if self.driver and not self.dry_run` skips both calls in a dry run)
cleanup_done ==
    /\ phase = "cleanup"
    /\ dry_run \/ call = "close"
    /\ pc = "idle"
    /\ phase' = "exit"
    /\ UNCHANGED <<driverVars, sends, running, ready, dry_run, motionVars, codec, signalled, simFields, safetyVars>>

\* _signal_handler(signum, frame): self._running = False
signal_handler ==
    /\ phase # "exit"
    /\ running' = FALSE
    /\ signalled' = TRUE
    /\ UNCHANGED <<driverVars, sends, phase, ready, dry_run, motionVars, codec, simFields,
                   safetyVars>>

(* ------------------------------------------------------------------ *)
(* Simulator (src/src/main_v2.py)                                      *)
(* ------------------------------------------------------------------ *)
\* Simulator.run() connects, loops while self.running and then calls
\* shutdown().  As for main.py, the position within a phase is given by the
\* driver call made last and what it returned.

\* An exception is leaving driver.send_position or driver.close: neither
\* run(), shutdown() nor main() has a handler.
SimUnwinding == pc = "idle" /\ call \in {"v2_send_position", "v2_close"} /\ ret = "raised"

\* run(): self.driver.connect()
sim_connect ==
    /\ sim_phase = "connect"
    /\ call = "none"
    /\ v2_connect

\* run(): `if not self.driver.connect(): ... return`
sim_connect_failed ==
    /\ sim_phase = "connect"
    /\ pc = "idle"
    /\ call = "v2_connect"
    /\ ret = "false"
    /\ sim_phase' = "exit"
    /\ UNCHANGED <<driverVars, sends, mainFields, sim_running, safetyVars>>

\* run(): connect() returned True, the thread reaches `while self.running`
sim_enter_loop ==
    /\ sim_phase = "connect"
    /\ pc = "idle"
    /\ call = "v2_connect"
    /\ ret = "true"
    /\ sim_phase' = "loop"
    /\ UNCHANGED <<driverVars, sends, mainFields, sim_running, safetyVars>>

\* run(): one iteration of the loop that received a motion packet:
\* self.driver.send_position(position)
sim_send_position(position_mm) ==
    /\ sim_phase = "loop"
    /\ sim_running
    /\ ~SimUnwinding
    /\ v2_send_position(position_mm)

\* run(): `while self.running` ends; self.shutdown() is called
sim_loop_exit ==
    /\ sim_phase = "loop"
    /\ ~sim_running
    /\ pc = "idle"
    /\ ~SimUnwinding
    /\ sim_phase' = "shutdown"
    /\ UNCHANGED <<driverVars, sends, mainFields, sim_running, safetyVars>>

\* shutdown(): self.driver.close()
sim_shutdown ==
    /\ sim_phase = "shutdown"
    /\ call # "v2_close"
    /\ v2_close

\* shutdown() returns, run() returns
sim_done ==
    /\ sim_phase = "shutdown"
    /\ call = "v2_close"
    /\ pc = "idle"
    /\ ret # "raised"
    /\ sim_phase' = "exit"
    /\ UNCHANGED <<driverVars, sends, mainFields, sim_running, safetyVars>>

\* The exception leaves run() and main(): the process ends with a traceback,
\* without shutdown() when it came from the loop.
sim_uncaught ==
    /\ sim_phase \in {"loop", "shutdown"}
    /\ SimUnwinding
    /\ sim_phase' = "crashed"
    /\ UNCHANGED <<driverVars, sends, mainFields, sim_running, safetyVars>>

\* stop(*args): self.running = False
sim_stop ==
    /\ sim_phase \notin {"exit", "crashed"}
    /\ sim_running' = FALSE
    /\ UNCHANGED <<driverVars, sends, mainFields, sim_phase, safetyVars>>

(* ------------------------------------------------------------------ *)
(* MotionAlgorithm (src/src/motion/algorithm.py) and                   *)
(* MotionAlgorithmV2 (src/src/motion/algorithm_v2.py)                  *)
(* ------------------------------------------------------------------ *)
\* Floats are modelled at two resolutions.  G-forces and filter values are
\* integers in units of 1e-5 g (FilterUnitsPerG per g), telemetry inputs in
\* milli-g.  Positions are micrometres, and a computed position is rounded
\* to PositionUlp micrometres: a double near 450 mm is spaced more coarsely
\* than a filter output near 0, so a small enough offset is absorbed when it
\* is added to the center.  NaN is the float NaN: every comparison with it is
\* false and every sum or product with it is NaN.

\* MotionConfig defaults (dimension = SURGE), positions in micrometres
highpass_cutoff_hz == 1
gain == 100                 \* mm per g
deadband == 50              \* 0.05 g, in milli-g
slew_rate_limit == 500      \* mm/s
update_rate_hz == 30
motion_center_mm == 450000
motion_min_position_mm == 50000
motion_max_position_mm == 850000

\* AlgorithmConfig defaults (MotionAlgorithmV2, dimension = "surge")
scale == 80                 \* mm per g
smoothing == 0
threshold == 50             \* 0.05 g, in milli-g
alg2_center_mm == 350000
alg2_min_mm == 50000
alg2_max_mm == 850000

FilterUnitsPerG == 100000
MilliGPerG == 1000
PositionUlp == 10

\* HighPassFilter.__post_init__: alpha = tau / (tau + dt) with dt = 1/rate and
\* tau = 1/(2 pi cutoff), that is rate / (rate + 2 pi cutoff); pi taken as 22/7
AlphaNum == 7 * update_rate_hz
AlphaDen == 7 * update_rate_hz + 44 * highpass_cutoff_hz

\* g_force_longitudinal of a telemetry frame, in milli-g: the ends of the
\* range the game reports, light braking and acceleration just outside the
\* deadband, a value inside it, rest, and a NaN
GInputs == {-6000, -60, 0, 40, 60, 6000, NaN}

\* n / d rounded to the nearest integer, halves away from zero
RoundDiv(n, d) ==
    IF n >= 0 THEN (2 * n + d) \div (2 * d) ELSE -((2 * (-n) + d) \div (2 * d))

\* a computed position as the double that holds it
ToPosition(v) == IF v = NaN THEN NaN ELSE RoundDiv(v, PositionUlp) * PositionUlp

\* (mutant: the algorithm does not clamp its result)
M_ClampPosition_passes_through(lo, hi, v) == v

\* max(lo, min(hi, v)) as Python evaluates it: min and max return their
\* first argument unless the second compares below (above) it
ClampPosition(lo, hi, v) ==
    LET inner == IF FloatLess(v, hi) THEN v ELSE hi
    IN  IF FloatGreater(inner, lo) THEN inner ELSE lo

\* MotionAlgorithm.__init__ and reset(): the state of a new instance
NewAlgorithm ==
    [last_input |-> 0, prev_input |-> 0, prev_output |-> 0,
     current_position |-> motion_center_mm]

\* (mutant: the longitudinal G-force is taken as it comes)
M_extract_input_not_inverted(g) == g

\* MotionAlgorithm._extract_input(telemetry) for SURGE: braking (negative
\* g_force_longitudinal) is to move the actuator forward
extract_input(g) == IF g = NaN THEN NaN ELSE -g

\* MotionAlgorithm._apply_slew_rate(target_mm) with _current_position = current
apply_slew_rate(current, target_mm) ==
    LET max_change == RoundDiv(slew_rate_limit * UmPerMm, update_rate_hz)
        change == IF target_mm = NaN THEN NaN ELSE target_mm - current
        limited == IF FloatGreater(IF change = NaN THEN NaN ELSE Abs(change), max_change)
                   THEN (IF change > 0 THEN max_change ELSE -max_change)
                   ELSE change
    IN  IF limited = NaN THEN NaN ELSE ToPosition(current + limited)

\* MotionAlgorithm.calculate(telemetry) on an instance in state st, for a
\* frame with g_force_longitudinal = g: the new state, the value handed to
\* the filter (raw) and the position returned (out)
MotionAlgorithm_step(st, g) ==
    LET extracted == extract_input(g)
        difference == IF extracted = NaN \/ st.last_input = NaN THEN NaN
                      ELSE Abs(extracted - st.last_input)
        raw_input == IF FloatLess(difference, deadband) THEN st.last_input ELSE extracted
        x == IF raw_input = NaN THEN NaN ELSE raw_input * (FilterUnitsPerG \div MilliGPerG)
        filtered == IF x = NaN \/ st.prev_output = NaN \/ st.prev_input = NaN THEN NaN
                    ELSE RoundDiv(AlphaNum * (st.prev_output + x - st.prev_input), AlphaDen)
        offset_mm == IF filtered = NaN THEN NaN
                     ELSE filtered * ((gain * UmPerMm) \div FilterUnitsPerG)
        target_mm == IF offset_mm = NaN THEN NaN ELSE ToPosition(motion_center_mm + offset_mm)
        slewed == apply_slew_rate(st.current_position, target_mm)
        clamped == ClampPosition(motion_min_position_mm, motion_max_position_mm, slewed)
    IN  [st |-> [last_input |-> raw_input, prev_input |-> x, prev_output |-> filtered,
                 current_position |-> clamped],
         raw |-> raw_input,
         out |-> clamped]

\* MotionAlgorithmV2.__init__: the state of a new instance
NewAlgorithmV2 == [smoothed_g |-> 0, last_g_force |-> 0]

\* MotionAlgorithmV2.reset(): only smoothed_g is cleared
ResetAlgorithmV2(st) == [st EXCEPT !.smoothed_g = 0]

\* MotionAlgorithmV2.calculate(telemetry), as above; smoothed_g is in milli-g
MotionAlgorithmV2_step(st, g) ==
    LET difference == IF g = NaN \/ st.last_g_force = NaN THEN NaN
                      ELSE Abs(g - st.last_g_force)
        g_force == IF FloatLess(difference, threshold) THEN st.last_g_force ELSE g
        smoothed == IF st.smoothed_g = NaN \/ g_force = NaN THEN NaN
                    ELSE (smoothing * st.smoothed_g + (MilliGPerG - smoothing) * g_force) \div MilliGPerG
        position_mm == IF smoothed = NaN THEN NaN
                       ELSE ToPosition(alg2_center_mm - smoothed * ((scale * UmPerMm) \div MilliGPerG))
        clamped == ClampPosition(alg2_min_mm, alg2_max_mm, position_mm)
    IN  [st |-> [smoothed_g |-> smoothed, last_g_force |-> g_force],
         raw |-> g_force,
         out |-> clamped]

\* Which of the two pipelines' algorithms the calls so far went to
UsesV1 == motion_call.fn \in {"none", "calculate", "reset"}
UsesV2 == motion_call.fn \in {"none", "v2_calculate", "v2_reset"}

motionFrame == <<driverVars, sends, phase, running, ready, dry_run, signalled, codec, simFields,
                 safetyVars>>

\* MotionAlgorithm.calculate(telemetry)
MotionAlgorithm_calculate(g) ==
    /\ UsesV1
    /\ LET r == MotionAlgorithm_step(algorithm, g)
       IN  /\ algorithm' = r.st
           /\ motion_call' = [fn |-> "calculate", raw |-> r.raw, out |-> r.out]
    /\ frames' = Append(frames, g)
    /\ UNCHANGED <<algorithm2, was_reset, motionFrame>>

\* MotionAlgorithm.reset()
MotionAlgorithm_reset ==
    /\ UsesV1
    /\ algorithm' = NewAlgorithm
    /\ motion_call' = [fn |-> "reset", raw |-> 0, out |-> 0]
    /\ frames' = <<>>
    /\ was_reset' = TRUE
    /\ UNCHANGED <<algorithm2, motionFrame>>

\* MotionAlgorithmV2.calculate(telemetry)
MotionAlgorithmV2_calculate(g) ==
    /\ UsesV2
    /\ LET r == MotionAlgorithmV2_step(algorithm2, g)
       IN  /\ algorithm2' = r.st
           /\ motion_call' = [fn |-> "v2_calculate", raw |-> r.raw, out |-> r.out]
    /\ frames' = Append(frames, g)
    /\ UNCHANGED <<algorithm, was_reset, motionFrame>>

\* MotionAlgorithmV2.reset()
MotionAlgorithmV2_reset ==
    /\ UsesV2
    /\ algorithm2' = ResetAlgorithmV2(algorithm2)
    /\ motion_call' = [fn |-> "v2_reset", raw |-> 0, out |-> 0]
    /\ frames' = <<>>
    /\ was_reset' = TRUE
    /\ UNCHANGED <<algorithm, motionFrame>>

\* The position calculate returned is passed through the safety envelope:
\* clamp_smc_position(calculate(frame))
clamp_calculated ==
    /\ motion_call.fn \in {"calculate", "v2_calculate"}
    /\ safety_call = "none" \/ value_arg # motion_call.out
    /\ clamp_smc_position(motion_call.out)

(* ------------------------------------------------------------------ *)
(* The 32-bit register codec (_write_int32, _read_int32)               *)
(* ------------------------------------------------------------------ *)
\* Integers handed to _write_int32: high words at both ends of the signed
\* range, around the sign change and in between, each with low words at both
\* ends of the unsigned 16-bit range and around its middle.
HighWords == {-32768, -32767, -16384, -2, -1, 0, 1, 16384, 32766, 32767}

LowWords == {0, 1, 32767, 32768, 65534, 65535}

Int32Values == {h * 65536 + l : h \in HighWords, l \in LowWords}

codecFrame == <<driverVars, sends, phase, running, ready, dry_run, signalled, motionVars,
                simFields, safetyVars>>

\* _write_int32(address, value): struct.pack('>i', value), split into two
\* registers and handed to write_registers
write_int32(value) ==
    /\ codec' = [fn |-> "_write_int32", value |-> value,
                 words |-> WriteInt32(POSITION, value, TRUE).val, read |-> 0]
    /\ UNCHANGED codecFrame

\* _read_int32(address) when the two registers hold the words written last
read_int32 ==
    /\ codec.fn = "_write_int32"
    /\ codec' = [codec EXCEPT !.fn = "_read_int32",
                              !.read = UnpackInt32(codec.words)]
    /\ UNCHANGED codecFrame

CodecInit == codec = [fn |-> "none", value |-> 0, words |-> <<0, 0>>, read |-> 0]

MotionInit ==
    /\ algorithm = NewAlgorithm
    /\ algorithm2 = NewAlgorithmV2
    /\ frames = <<>>
    /\ motion_call = [fn |-> "none", raw |-> 0, out |-> 0]
    /\ was_reset = FALSE

(* ------------------------------------------------------------------ *)
(* Clock                                                               *)
(* ------------------------------------------------------------------ *)
\* time.perf_counter() is monotonic; time passes between calls.
PerfTick ==
    /\ pc = "idle"
    /\ perfNow < MaxPerfNow
    /\ perfNow' = perfNow + 1
    /\ UNCHANGED <<driverFields, v2Fields, pc, call, ret, home_first,
                   closing, polls, bus, tracing, wait_ret, outside>>

(* ------------------------------------------------------------------ *)
(* Specification                                                       *)
(* ------------------------------------------------------------------ *)
\* The state after SMCDriver.__init__ (lines 162-169).
DriverInit ==
    /\ client = FALSE
    /\ connected = FALSE
    /\ initialized = FALSE
    /\ last_command_time = 0
    /\ last_position = center_mm
    /\ commands_sent = 0
    /\ commands_skipped = 0

\* The state after SMCDriverV2.__init__ (lines 63-67) with the default config.
V2Init ==
    /\ v2_client = FALSE
    /\ v2_connected = FALSE
    /\ v2_last_command_time = 0
    /\ rate_limit_hz = NoRateLimit

ThreadInit ==
    /\ pc = "idle"
    /\ call = "none"
    /\ ret = "none"
    /\ home_first = FALSE
    /\ closing = FALSE
    /\ polls = 0
    /\ wait_ret = "none"
    /\ bus = <<>>

\* F1MotionSimulator.__init__ (lines 134-137)
MainInit ==
    /\ phase = "setup"
    /\ running = FALSE
    /\ ready = FALSE
    /\ signalled = FALSE
    /\ MotionInit
    /\ CodecInit

\* SafetyModule.__init__ (lines 163-167), the EmergencyStop class attributes
\* (lines 93-95); time.time() is positive.
SafetyInit ==
    /\ estopped = FALSE
    /\ estop_time = NoTime
    /\ estop_callbacks = <<>>
    /\ warning_count = 0
    /\ es_active = FALSE
    /\ es_trigger_time = NoTime
    /\ es_callbacks = <<>>
    /\ callbacks_run = <<>>
    /\ safety_call = "none"
    /\ safety_ret = "none"
    /\ value_arg = 0
    /\ value_ret = 0
    /\ wallNow = 1

\* Simulator.__init__ (main_v2.py line 17)
SimInit ==
    /\ sim_phase = "connect"
    /\ sim_running = TRUE

OutsideInit ==
    /\ sends = <<>>
    /\ MainInit
    /\ dry_run = FALSE
    /\ SimInit
    /\ SafetyInit

\* SMCDriver driven through its whole interface in any order and at any time.
\* The observers are off.
Init ==
    /\ DriverInit
    /\ V2Init
    /\ ThreadInit
    /\ OutsideInit
    /\ perfNow \in 0..command_interval
    /\ tracing = FALSE

Next ==
    \/ connect
    \/ \E home \in BOOLEAN : initialize(home)
    \/ init_serial
    \/ init_alarm
    \/ init_reset_on
    \/ init_reset_off
    \/ init_svon
    \/ init_wait_svre
    \/ init_setup_on
    \/ init_wait_seton
    \/ init_setup_off
    \/ init_read_home
    \/ init_center
    \/ init_center_wait
    \/ init_read_center
    \/ init_retry
    \/ init_retry_wait
    \/ init_read_retry
    \/ shutdown
    \/ shut_center
    \/ shut_wait
    \/ shut_svoff
    \/ close
    \/ close_release
    \/ \E x \in Targets : send_position(x)
    \/ PerfTick

Spec == Init /\ [][Next]_vars

\* SMCDriver's lifecycle calls alone, with every bus operation logged.
InitLifecycle ==
    /\ DriverInit
    /\ V2Init
    /\ ThreadInit
    /\ OutsideInit
    /\ perfNow = 0
    /\ tracing = TRUE

NextLifecycle ==
    \/ connect
    \/ \E home \in BOOLEAN : initialize(home)
    \/ init_serial
    \/ init_alarm
    \/ init_reset_on
    \/ init_reset_off
    \/ init_svon
    \/ init_wait_svre
    \/ init_setup_on
    \/ init_wait_seton
    \/ init_setup_off
    \/ init_read_home
    \/ init_center
    \/ init_center_wait
    \/ init_read_center
    \/ init_retry
    \/ init_retry_wait
    \/ init_read_retry
    \/ shutdown
    \/ shut_center
    \/ shut_wait
    \/ shut_svoff
    \/ close
    \/ close_release

SpecLifecycle == InitLifecycle /\ [][NextLifecycle]_vars

\* SMCDriverV2 driven through its whole interface in any order and at any
\* time (main_v2.py's driver), with every bus operation logged; the config's
\* rate limit is off (the default) or 30 Hz (the value its comment suggests).
InitV2 ==
    /\ DriverInit
    /\ v2_client = FALSE
    /\ v2_connected = FALSE
    /\ v2_last_command_time = 0
    /\ rate_limit_hz \in {NoRateLimit, command_rate_hz}
    /\ ThreadInit
    /\ OutsideInit
    /\ perfNow \in 0..command_interval
    /\ tracing = TRUE

NextV2 ==
    \/ v2_connect
    \/ v2_serial
    \/ v2_reset_on
    \/ v2_reset_off
    \/ v2_svon
    \/ v2_wait_svre
    \/ v2_setup_on
    \/ v2_wait_seton
    \/ v2_setup_off
    \/ v2_reset2_on
    \/ v2_reset2_off
    \/ v2_params
    \/ v2_center
    \/ v2_center_wait
    \/ v2_ready
    \/ v2_close
    \/ v2_close_center
    \/ v2_close_wait
    \/ v2_close_svoff
    \/ v2_close_release
    \/ \E x \in Targets : v2_send_position(x)
    \/ PerfTick

SpecV2 == InitV2 /\ [][NextV2]_vars

\* Targets of the command path (micrometres): below and above the soft
\* limits (clamped to them), within the 0.5 mm threshold of center and just
\* beyond it.
ThrottleTargets == {0, 449600, 450505, 900000}

\* SMCDriver's command path: a connected link and send_position calls at
\* arbitrary times, each call recorded by the observer.
InitThrottle ==
    /\ DriverInit
    /\ V2Init
    /\ ThreadInit
    /\ OutsideInit
    /\ perfNow \in 0..command_interval
    /\ tracing = TRUE

NextThrottle ==
    \/ connect
    \/ \E x \in ThrottleTargets : send_position(x)
    \/ close
    \/ close_release
    \/ PerfTick

SpecThrottle == InitThrottle /\ [][NextThrottle]_vars

\* The driver a run has constructed and called: main.py drives an SMCDriver,
\* main_v2.py an SMCDriverV2.
DriverInUse ==
    IF call = "none" THEN "none"
    ELSE IF call \in {"v2_connect", "v2_send_position", "v2_close"} THEN "SMCDriverV2"
    ELSE "SMCDriver"

\* The command path of either driver: the driver is connected, commanded
\* with arbitrary targets and closed; bus holds the operations of the last
\* send_position call.
InitCommands ==
    /\ DriverInit
    /\ v2_client = FALSE
    /\ v2_connected = FALSE
    /\ v2_last_command_time = 0
    /\ rate_limit_hz \in {NoRateLimit, command_rate_hz}
    /\ ThreadInit
    /\ OutsideInit
    /\ perfNow \in 0..command_interval
    /\ tracing = FALSE

NextV1 ==
    \/ connect
    \/ \E x \in Targets : send_position(x)
    \/ close
    \/ close_release
    \/ PerfTick

NextCommands ==
    \/ DriverInUse # "SMCDriverV2" /\ NextV1
    \/ DriverInUse # "SMCDriver" /\ NextV2

SpecCommands == InitCommands /\ [][NextCommands]_vars

\* The register codec on its own: integers written as two registers and
\* read back.
NextCodec ==
    \/ \E value \in Int32Values : write_int32(value)
    \/ read_int32

SpecCodec == Init /\ [][NextCodec]_vars

\* The safety layer on its own: SafetyModule and EmergencyStop called in any
\* order while the wall clock advances.
InitSafety ==
    /\ DriverInit
    /\ V2Init
    /\ ThreadInit
    /\ OutsideInit
    /\ perfNow = 0
    /\ tracing = FALSE

NextSafety ==
    \/ \E x \in ClampInputs : clamp_smc_position(x)
    \/ trigger_estop
    \/ reset_estop
    \/ EmergencyStop_trigger
    \/ \E timeout \in ResetTimeouts : EmergencyStop_reset(timeout)
    \/ WallTick

SpecSafety == InitSafety /\ [][NextSafety]_vars

\* The SafetyModule's envelope: positions clamped and speed-limited in any
\* order, between emergency stops and resets.
InitEnvelope ==
    /\ DriverInit
    /\ V2Init
    /\ ThreadInit
    /\ OutsideInit
    /\ perfNow = 0
    /\ tracing = FALSE

NextEnvelope ==
    \/ \E x \in ClampInputs : clamp_smc_position(x)
    \/ \E c \in SpeedInputs, t \in SpeedInputs, dt \in DtInputs : limit_speed(c, t, dt)
    \/ trigger_estop
    \/ reset_estop
    \/ WallTick

SpecEnvelope == InitEnvelope /\ [][NextEnvelope]_vars

\* Emergency-stop callbacks: registered, then invoked by the triggers.
InitCallbacks ==
    /\ DriverInit
    /\ V2Init
    /\ ThreadInit
    /\ OutsideInit
    /\ perfNow = 0
    /\ tracing = FALSE

NextCallbacks ==
    \/ \E kind \in CallbackKinds : register_estop_callback(kind)
    \/ \E kind \in CallbackKinds : EmergencyStop_register_callback(kind)
    \/ trigger_estop
    \/ EmergencyStop_trigger

SpecCallbacks == InitCallbacks /\ [][NextCallbacks]_vars

\* main.py's simulator running its driver, beside a SafetyModule whose
\* emergency stop is triggered and reset at any time.
InitMain ==
    /\ DriverInit
    /\ V2Init
    /\ ThreadInit
    /\ OutsideInit
    /\ perfNow = 0
    /\ tracing = FALSE

NextMain ==
    \/ setup_connect
    \/ setup_initialize
    \/ init_serial
    \/ init_alarm
    \/ init_reset_on
    \/ init_reset_off
    \/ init_svon
    \/ init_wait_svre
    \/ init_setup_on
    \/ init_wait_seton
    \/ init_setup_off
    \/ init_read_home
    \/ init_center
    \/ init_center_wait
    \/ init_read_center
    \/ init_retry
    \/ init_retry_wait
    \/ init_read_retry
    \/ setup_failed
    \/ setup_done
    \/ run_start
    \/ \E x \in Targets : run_send_position(x)
    \/ run_loop_exit
    \/ cleanup_shutdown
    \/ shut_center
    \/ shut_wait
    \/ shut_svoff
    \/ cleanup_close
    \/ close_release
    \/ cleanup_done
    \/ signal_handler
    \/ PerfTick
    \/ trigger_estop
    \/ reset_estop
    \/ WallTick

SpecMain == InitMain /\ [][NextMain]_vars

\* main.py's main() from start to exit, with hardware or as a dry run.
InitOrch ==
    /\ DriverInit
    /\ V2Init
    /\ ThreadInit
    /\ sends = <<>>
    /\ MainInit
    /\ dry_run \in BOOLEAN
    /\ SimInit
    /\ SafetyInit
    /\ perfNow = 0
    /\ tracing = FALSE

NextOrch ==
    \/ setup_connect
    \/ setup_initialize
    \/ init_serial
    \/ init_alarm
    \/ init_reset_on
    \/ init_reset_off
    \/ init_svon
    \/ init_wait_svre
    \/ init_setup_on
    \/ init_wait_seton
    \/ init_setup_off
    \/ init_read_home
    \/ init_center
    \/ init_center_wait
    \/ init_read_center
    \/ init_retry
    \/ init_retry_wait
    \/ init_read_retry
    \/ setup_failed
    \/ setup_done
    \/ run_start
    \/ \E x \in Targets : run_send_position(x)
    \/ run_loop_exit
    \/ cleanup_shutdown
    \/ shut_center
    \/ shut_wait
    \/ shut_svoff
    \/ cleanup_close
    \/ close_release
    \/ cleanup_done
    \/ signal_handler
    \/ PerfTick

SpecOrch == InitOrch /\ [][NextOrch]_vars

\* The same with the main thread running on: a step of the program that is
\* enabled is eventually taken.  Signals and the passing of time are the
\* environment's and are not forced.
OrchProgramStep == NextOrch /\ (running => running') /\ perfNow' = perfNow

SpecOrchLive == InitOrch /\ [][NextOrch]_vars /\ WF_vars(OrchProgramStep)

\* main_v2.py's simulator running its SMCDriverV2 (default DriverConfig: no
\* rate limit).
InitSim ==
    /\ DriverInit
    /\ V2Init
    /\ ThreadInit
    /\ OutsideInit
    /\ perfNow = 0
    /\ tracing = FALSE

NextSim ==
    \/ sim_connect
    \/ v2_serial
    \/ v2_reset_on
    \/ v2_reset_off
    \/ v2_svon
    \/ v2_wait_svre
    \/ v2_setup_on
    \/ v2_wait_seton
    \/ v2_setup_off
    \/ v2_reset2_on
    \/ v2_reset2_off
    \/ v2_params
    \/ v2_center
    \/ v2_center_wait
    \/ v2_ready
    \/ sim_connect_failed
    \/ sim_enter_loop
    \/ \E x \in Targets : sim_send_position(x)
    \/ sim_loop_exit
    \/ sim_shutdown
    \/ v2_close_center
    \/ v2_close_wait
    \/ v2_close_svoff
    \/ v2_close_release
    \/ sim_done
    \/ sim_uncaught
    \/ sim_stop
    \/ PerfTick

SpecSim == InitSim /\ [][NextSim]_vars

\* SMCDriverV2 as above, its control thread running on: a call that has been
\* entered keeps taking steps.
SpecV2Live == InitV2 /\ [][NextV2]_vars /\ WF_vars(NextV2)


\* A motion algorithm of either pipeline fed any telemetry, and reset at any
\* time.
InitMotion ==
    /\ DriverInit
    /\ V2Init
    /\ ThreadInit
    /\ OutsideInit
    /\ perfNow = 0
    /\ tracing = FALSE

NextMotion ==
    \/ \E g \in GInputs : Len(frames) < MaxFrames /\ MotionAlgorithm_calculate(g)
    \/ ~was_reset /\ MotionAlgorithm_reset
    \/ \E g \in GInputs : Len(frames) < MaxFrames /\ MotionAlgorithmV2_calculate(g)
    \/ ~was_reset /\ MotionAlgorithmV2_reset

SpecMotion == InitMotion /\ [][NextMotion]_vars

\* The pipeline from telemetry to a safe position: each frame goes through
\* calculate, and the position through the safety envelope.
NextPipeline ==
    \/ \E g \in GInputs : Len(frames) < MaxFrames /\ MotionAlgorithm_calculate(g)
    \/ \E g \in GInputs : Len(frames) < MaxFrames /\ MotionAlgorithmV2_calculate(g)
    \/ clamp_calculated

SpecPipeline == InitMotion /\ [][NextPipeline]_vars

\* The braking scenario: a new instance is fed a constant G-force for two
\* seconds of frames at update_rate_hz, then rest (g = 0) for two seconds.
ScenarioInputs == {-2000, -60, 60, 2000}

HoldFrames == 2 * update_rate_hz

ConstantFrames(g) == \A i \in 1..Len(frames) : frames[i] = g

NextScenario ==
    \/ \E g \in ScenarioInputs :
          ConstantFrames(g) /\ Len(frames) < HoldFrames /\ MotionAlgorithm_calculate(g)
    \/ /\ HoldFrames <= Len(frames)
       /\ Len(frames) < 2 * HoldFrames
       /\ MotionAlgorithm_calculate(0)
    \/ \E g \in ScenarioInputs :
          ConstantFrames(g) /\ Len(frames) < HoldFrames /\ MotionAlgorithmV2_calculate(g)
    \/ /\ HoldFrames <= Len(frames)
       /\ Len(frames) < 2 * HoldFrames
       /\ MotionAlgorithmV2_calculate(0)

SpecScenario == InitMotion /\ [][NextScenario]_vars


(* ------------------------------------------------------------------ *)
(* Reading the bus log                                                 *)
(* ------------------------------------------------------------------ *)
IsCoilWrite(e, addr, v) == e.op = "write_coil" /\ e.addr = addr /\ e.val = <<v>>

\* bus[i] is a poll that read the input addr as asserted
AssertedReadAt(i, addr) ==
    /\ bus[i].op = "read_input"
    /\ bus[i].addr = addr
    /\ bus[i].val = <<1>>
    /\ bus[i].ok

NoWriteBetween(i, j) == \A k \in (i + 1)..(j - 1) : ~IsWrite(bus[k])

(* ------------------------------------------------------------------ *)
(* C1 - C10                                                            *)
(* ------------------------------------------------------------------ *)

\* C1: in SMCDriver.initialize with homing, once a poll has read SETON as
\* asserted, the write that precedes that poll in the trace of bus writes is
\* SETUP = true, the write that follows it is SETUP = false, and that second
\* write is issued as soon as the thread leaves the wait: no other coil or
\* register write lies between the two.
C1_HomingOrdering ==
    \A i \in 1..Len(bus) :
        AssertedReadAt(i, SETON) =>
            /\ \E j \in 1..(i - 1) :
                  /\ IsCoilWrite(bus[j], SETUP, 1)
                  /\ bus[j].ok
                  /\ NoWriteBetween(j, i)
            /\ \A j \in (i + 1)..Len(bus) :
                  (IsWrite(bus[j]) /\ NoWriteBetween(i, j)) => IsCoilWrite(bus[j], SETUP, 0)
            /\ pc # "init_setup_off" => \E j \in (i + 1)..Len(bus) : IsWrite(bus[j])

\* C1 witness: homing completed, SETUP was cleared on the bus and the center
\* move's registers were written after it.
C1_Witness ==
    /\ call = "initialize"
    /\ pc = "init_center_wait"
    /\ \E i \in 1..Len(bus) :
          /\ AssertedReadAt(i, SETON)
          /\ i + 1 <= Len(bus)
          /\ IsCoilWrite(bus[i + 1], SETUP, 0)
          /\ bus[i + 1].ok
    /\ \E j \in 1..Len(bus) : bus[j].op = "write_register" /\ bus[j].addr = OPERATION_START

\* C2: the bus operation (read or write) that follows the poll that read
\* SETON as asserted is the write that de-asserts SETUP, and while that poll
\* is the last operation the thread is at that write.
C2_ClearIsNextOperation ==
    \A i \in 1..Len(bus) :
        AssertedReadAt(i, SETON) =>
            IF i < Len(bus)
            THEN IsCoilWrite(bus[i + 1], SETUP, 0)
            ELSE pc = "init_setup_off"

\* C2 witness: SETON was read as asserted after unsuccessful polls, and the
\* clearing write and the position read-back followed.
C2_Witness ==
    /\ call = "initialize"
    /\ \E i \in 2..Len(bus) :
          /\ AssertedReadAt(i, SETON)
          /\ bus[i - 1].op = "read_input" /\ bus[i - 1].addr = SETON /\ bus[i - 1].val = <<0>>
          /\ i + 2 <= Len(bus)
          /\ IsCoilWrite(bus[i + 1], SETUP, 0)
          /\ bus[i + 2].op = "read_registers"

C4_EstoppedClampReturnsCenter ==
    (safety_call = "clamp_smc_position" /\ estopped) => value_ret = SMC_CENTER_MM

\* C5: a reset_estop called less than the e-stop timeout after the most
\* recent trigger_estop returns False and changes nothing (the latch stays
\* set, the state stays EmergencyStopped, the trigger time is kept); the same
\* for EmergencyStop.reset called less than its timeout after the most
\* recent EmergencyStop.trigger.
C5_EarlyResetRefused ==
    [][/\ (reset_estop /\ estop_time # NoTime /\ wallNow - estop_time < ESTOP_TIMEOUT_S) =>
              /\ safety_ret' = "false"
              /\ estopped /\ estopped'
              /\ state' = "emergency_stop"
              /\ estop_time' = estop_time
       /\ \A timeout \in ResetTimeouts :
              (/\ EmergencyStop_reset(timeout)
               /\ es_trigger_time # NoTime
               /\ wallNow - es_trigger_time < timeout) =>
                  /\ safety_ret' = "false"
                  /\ es_active /\ es_active'
                  /\ es_trigger_time' = es_trigger_time]_vars

\* C5 witness: a reset_estop one second after the trigger was refused, and so
\* was an EmergencyStop.reset (the most recent call) one second after its
\* trigger; both latches are still set.
C5_Witness ==
    /\ safety_call = "EmergencyStop.reset"
    /\ safety_ret = "false"
    /\ es_active
    /\ wallNow - es_trigger_time = 1
    /\ estopped
    /\ wallNow - estop_time = 1

\* C6 as stated: a reset_estop called when at least the timeout has elapsed
\* since the trigger, or with no trigger before it, returns True and the
\* SafetyModule's state is Normal afterwards.
C6_ResetLeavesNormal ==
    [][(reset_estop /\ (estop_time = NoTime \/ wallNow - estop_time >= ESTOP_TIMEOUT_S)) =>
          (safety_ret' = "true" /\ state' = "normal")]_vars

\* C6 amended: such a reset_estop returns True and clears the latch and the
\* trigger time; the state afterwards is Normal when warning_count is 0 and
\* Warning when it is not.
C6_ResetClearsLatch ==
    [][(reset_estop /\ (estop_time = NoTime \/ wallNow - estop_time >= ESTOP_TIMEOUT_S)) =>
          /\ safety_ret' = "true"
          /\ ~estopped'
          /\ estop_time' = NoTime
          /\ warning_count' = warning_count
          /\ state' = IF warning_count > 0 THEN "warning" ELSE "normal"]_vars

\* C6 witness: a reset_estop has succeeded once the timeout had elapsed, and
\* the state it left is Warning.
C6_Witness ==
    /\ safety_call = "reset_estop"
    /\ safety_ret = "true"
    /\ ~estopped
    /\ warning_count > 0
    /\ state = "warning"
    /\ wallNow >= 1 + ESTOP_TIMEOUT_S

\* The recorded send_position calls i and j both transmitted a command.
BothTransmitted(i, j) == sends[i].tx /\ sends[j].tx

\* C7 as stated: any two send_position calls that each transmit a position
\* command are at least the command interval apart, and of two calls made
\* closer together than that (both on an open link, neither failing) exactly
\* one transmits.
C7_ThrottleExactlyOne ==
    \A i \in 1..Len(sends) : \A j \in (i + 1)..Len(sends) :
        /\ BothTransmitted(i, j) => sends[j].at - sends[i].at >= command_interval
        /\ (sends[i].ok /\ sends[j].ok /\ sends[j].at - sends[i].at < command_interval) =>
              (sends[i].tx /\ ~sends[j].tx) \/ (~sends[i].tx /\ sends[j].tx)

\* C7 amended: any two send_position calls that each transmit a position
\* command are at least the command interval apart; of two calls made closer
\* together than that at most one transmits: exactly one when the earlier of
\* them transmits, the later one then transmitting nothing.
C7_ThrottleAtMostOne ==
    \A i \in 1..Len(sends) : \A j \in (i + 1)..Len(sends) :
        /\ BothTransmitted(i, j) => sends[j].at - sends[i].at >= command_interval
        /\ sends[j].at - sends[i].at < command_interval => ~BothTransmitted(i, j)
        /\ (sends[i].tx /\ sends[j].at - sends[i].at < command_interval) =>
              ~sends[j].tx

\* C7 witness: a call transmitted, a call one tick later was suppressed, and a
\* call at least the interval after the first transmitted again.
C7_Witness ==
    /\ Len(sends) = 3
    /\ sends[1].tx /\ ~sends[2].tx /\ sends[3].tx
    /\ sends[2].at - sends[1].at = 1
    /\ sends[3].at - sends[1].at >= command_interval
    /\ commands_sent = 2

\* C8: a send_position call on a connected driver that falls under a
\* suppression (less than the command interval has elapsed since the last
\* accepted command, or the target is less than the position threshold away
\* from the last accepted position) returns True, issues no bus operation and
\* leaves the last-accepted time and position and the sent counter unchanged.
C8_SuppressedCallIsNoOp ==
    [][\A x \in Targets :
          (/\ connected
           /\ call' = "send_position"
           /\ \/ perfNow - last_command_time < command_interval
              \/ Abs(x - last_position) < position_threshold
              \/ Abs(ClampToSoftLimits(x) - last_position) < position_threshold
           /\ send_position(x)) =>
              /\ ret' = "true"
              /\ bus' = <<>>
              /\ last_command_time' = last_command_time
              /\ last_position' = last_position
              /\ commands_sent' = commands_sent
              /\ commands_skipped' = commands_skipped + 1]_vars

\* C8 witness: after a transmitted command, one call was suppressed by the
\* rate limit and a later one, past the interval, by the position threshold;
\* the last-accepted time is still that of the transmitted command.
C8_Witness ==
    /\ call = "send_position"
    /\ ret = "true"
    /\ bus = <<>>
    /\ Len(sends) = 3
    /\ sends[1].tx /\ ~sends[2].tx /\ ~sends[3].tx
    /\ sends[2].at - sends[1].at < command_interval
    /\ sends[3].at - sends[1].at >= command_interval
    /\ commands_skipped = 2
    /\ last_command_time = sends[1].at

\* C9: send_position writes to the field bus only when the driver is Ready
\* (initialize has returned True and no shutdown has happened since).
C9_WritesOnlyWhenReady ==
    (call = "send_position" /\ \E i \in 1..Len(bus) : IsWrite(bus[i])) => initialized

\* C10: when a register write fails inside send_position, the call returns
\* False without raising and the driver's state (link state, last-accepted
\* command time) keeps its previous value.
C10_FailedWriteLeavesState ==
    [][\A x \in Targets :
          (v2_send_position(x) /\ \E i \in 1..Len(bus') : ~bus'[i].ok) =>
              /\ ret' = "false"
              /\ v2_connected' = v2_connected
              /\ v2_last_command_time' = v2_last_command_time]_vars

(* ------------------------------------------------------------------ *)
(* C11 - C20                                                           *)
(* ------------------------------------------------------------------ *)

\* C11: a bus write that fails inside send_position while the simulator is
\* in its run loop does not end the loop: after that cycle the simulator is
\* still in the loop, or has left it for its orderly shutdown on a stop
\* request.
C11_WriteFailureConfinedToCycle ==
    [][(/\ sim_phase = "loop"
        /\ call = "v2_send_position"
        /\ \E i \in 1..Len(bus) : IsWrite(bus[i]) /\ ~bus[i].ok) =>
            sim_phase' \in {"loop", "shutdown"}]_vars

\* A write of the start trigger: the last write of a move command.
IsStartWrite(e) == IsWrite(e) /\ e.addr = OPERATION_START

\* The step in which _wait_for_input gives up: the thread leaves the wait
\* without a further bus operation.
WaitTimesOut(label) == pc = label /\ pc' # label /\ bus' = bus

\* C12: when the wait for servo-ready (SVRE) or for homing-complete (SETON)
\* times out, initialize returns False at once, does not set the initialized
\* flag, and has issued no move command (so none follows the timeout, the
\* call being over).
C12_TimeoutIsFatal ==
    [][(WaitTimesOut("init_wait_svre") \/ WaitTimesOut("init_wait_seton")) =>
          /\ ret' = "false"
          /\ pc' = "idle"
          /\ call' = "initialize"
          /\ initialized' = initialized
          /\ \A i \in 1..Len(bus') : ~IsStartWrite(bus'[i])]_vars

\* C12 witness: initialize on a fresh driver has returned False after the
\* homing wait polled SETON unasserted MaxPolls times; the driver is not
\* initialized and the log holds SETUP = true but no move command.
C12_Witness ==
    /\ call = "initialize"
    /\ pc = "idle"
    /\ ret = "false"
    /\ ~initialized
    /\ Len(bus) > MaxPolls
    /\ \A i \in (Len(bus) - MaxPolls + 1)..Len(bus) :
          bus[i] = ReadInput(SETON, FALSE, TRUE)
    /\ IsCoilWrite(bus[Len(bus) - MaxPolls], SETUP, 1)
    /\ \A i \in 1..Len(bus) : ~IsStartWrite(bus[i])

\* C13: when initialize's wait for motion-complete (BUSY clear) after a
\* center move has timed out, initialize returns False, and so does not mark
\* the driver Ready (only a True return follows the marking).
C13_MotionTimeoutIsFatal ==
    (call = "initialize" /\ pc = "idle" /\ ret # "none" /\ wait_ret = "false") =>
        ret = "false"

\* The thread gives up a poll loop of SMCDriverV2.connect: the last poll read
\* the input unasserted and the call is over.
PollLoopGivesUp(label, address) ==
    /\ pc = label
    /\ pc' = "idle"
    /\ Len(bus') > 0
    /\ bus'[Len(bus')] = ReadInput(address, FALSE, TRUE)

\* C14: every driver call that has been entered returns (the waits for
\* servo-ready, homing-complete and motion-complete give up after their
\* timeout even if the input never reaches the awaited value), and a wait
\* that gives up reports failure: the motion-complete wait returns False, the
\* servo-ready and homing-complete loops make connect return False.
C14_WaitsGiveUpAndReport ==
    /\ (pc # "idle") ~> (pc = "idle")
    /\ [][/\ (WaitTimesOut("v2_center_wait") \/ WaitTimesOut("v2_close_wait")) =>
                wait_ret' = "false"
          /\ (PollLoopGivesUp("v2_wait_svre", SVRE) \/ PollLoopGivesUp("v2_wait_seton", SETON)) =>
                ret' = "false"]_vars

\* connect() or initialize() has returned False to setup().
StartupFailed == pc = "idle" /\ call \in {"connect", "initialize"} /\ ret = "false"

InSafeRange(v) == v # NaN /\ SMC_MIN_MM <= v /\ v <= SMC_MAX_MM

\* C16: whatever position clamp_smc_position is given, the position it
\* returns lies in [5 mm, 895 mm]; it is 5 mm when the input is below 5 mm and
\* 895 mm when the input is above 895 mm.
C16_ClampWithinRange ==
    safety_call = "clamp_smc_position" =>
        /\ InSafeRange(value_ret)
        /\ FloatLess(value_arg, SMC_MIN_MM) => value_ret = SMC_MIN_MM
        /\ FloatGreater(value_arg, SMC_MAX_MM) => value_ret = SMC_MAX_MM

\* C17: clamp_smc_position called with a position x, 5 mm <= x <= 895 mm
\* (both limits included), returns x itself and leaves warning_count as it
\* was.
C17_InRangePassesThrough ==
    [][\A x \in ClampInputs :
          (InSafeRange(x) /\ clamp_smc_position(x)) =>
              /\ value_ret' = x
              /\ warning_count' = warning_count]_vars

\* C17 witness: after one clamped position (warning_count = 1) the upper
\* limit itself was passed to clamp_smc_position and came back unchanged.
C17_Witness ==
    /\ safety_call = "clamp_smc_position"
    /\ value_arg = SMC_MAX_MM
    /\ value_ret = SMC_MAX_MM
    /\ warning_count = 1

\* C18: no SafetyModule operation decreases warning_count, and a
\* clamp_smc_position or limit_speed call (on positions that are numbers)
\* increases it by exactly one when the value it returns differs from the
\* value requested, and not at all otherwise.
C18_WarningCountCountsAlterations ==
    [][/\ warning_count' >= warning_count
       /\ \A x \in ClampInputs \ {NaN} :
              clamp_smc_position(x) =>
                  warning_count' = warning_count + (IF value_ret' # x THEN 1 ELSE 0)
       /\ \A c \in SpeedInputs \ {NaN}, t \in SpeedInputs \ {NaN}, dt \in DtInputs :
              limit_speed(c, t, dt) =>
                  warning_count' = warning_count + (IF value_ret' # t THEN 1 ELSE 0)]_vars

\* C19: for dt > 0, limit_speed(current, target, dt) returns target and
\* leaves warning_count alone when |target - current| / dt does not exceed
\* the maximum speed (equivalently, dt being positive, when |target - current|
\* does not exceed max_speed * dt); otherwise it returns current plus or
\* minus max_speed * dt, toward the target, and adds one to warning_count.
\* The result is never more than max_speed * dt away from current.
C19_SpeedLimited ==
    [][safety_call' = "limit_speed" =>
          \A c \in SpeedInputs, dt \in DtInputs :
              LET t == value_arg'
                  bound == SMC_MAX_SPEED_MM_S * dt
                  exceeds == c # NaN /\ t # NaN /\ Abs(t - c) > bound
                  away == IF value_ret' = NaN \/ c = NaN THEN NaN
                          ELSE Abs(value_ret' - c)
              IN  (dt > 0 /\ limit_speed(c, t, dt)) =>
                      /\ ~exceeds => (value_ret' = t /\ warning_count' = warning_count)
                      /\ exceeds =>
                            /\ value_ret' = IF t > c THEN c + bound ELSE c - bound
                            /\ warning_count' = warning_count + 1
                      /\ ~FloatGreater(away, bound)]_vars

\* C19 witness: a request for 500 mm was limited to 450.5 mm (a step of
\* 500 mm/s * 1 ms up from 450 mm) and counted.
C19_Witness ==
    /\ safety_call = "limit_speed"
    /\ value_arg = 500000
    /\ value_ret = 450500
    /\ warning_count = 1

\* C20: trigger_estop invokes the callbacks registered with the
\* SafetyModule, each exactly once and in registration order, whether or not
\* some of them raise, and returns normally with the latch set; so does
\* EmergencyStop.trigger with the callbacks registered with the class.
C20_AllCallbacksRun ==
    [][/\ trigger_estop =>
              /\ callbacks_run' = estop_callbacks
              /\ estop_callbacks' = estop_callbacks
              /\ estopped'
              /\ safety_ret' = "none"
       /\ EmergencyStop_trigger =>
              /\ callbacks_run' = es_callbacks
              /\ es_callbacks' = es_callbacks
              /\ es_active'
              /\ safety_ret' = "none"]_vars

\* C20 witness: trigger_estop ran two callbacks of which the first raised,
\* the second after the first.
C20_Witness ==
    /\ safety_call = "trigger_estop"
    /\ Len(estop_callbacks) = 2
    /\ estop_callbacks[1].kind = "raises"
    /\ Len(callbacks_run) = 2
    /\ callbacks_run[1].id = 1
    /\ callbacks_run[2].id = 2
    /\ estopped

(* ------------------------------------------------------------------ *)
(* C21 - C30                                                           *)
(* ------------------------------------------------------------------ *)

\* The log holds, before entry i, a complete move command to the center
\* position: the position register written with the center and, after it,
\* the start trigger.
CenterMoveCommandedBefore(i) ==
    \E j \in 1..(i - 1) :
        /\ IsStartWrite(bus[j])
        /\ bus[j].ok
        /\ \E k \in 1..(j - 1) : bus[k] = WriteInt32(POSITION, PositionUnits(center_mm), TRUE)

\* The step that is the call of shutdown() from outside the driver.
ShutdownCalled == pc = "idle" /\ call' = "shutdown"

\* In a shutdown (alone or inside close) the servo-off write is attempted
\* only after a complete move command to the center, and a timeout of the
\* wait for motion-complete leads to the servo-off write all the same.
ShutdownOrder ==
    /\ \A i \in 1..Len(bus) :
          (call \in {"shutdown", "close"} /\ bus[i].op = "write_coil" /\ bus[i].addr = SVON)
              => (bus[i].val = <<0>> /\ CenterMoveCommandedBefore(i))
    /\ (pc = "shut_svoff") => CenterMoveCommandedBefore(Len(bus) + 1)

CloseCalled == pc = "idle" /\ call' = "close"

\* close() has returned with the link released and the driver not connected.
Disconnected == ~client /\ ~connected

\* About to release the link inside close(): a shutdown that returned True
\* has written SVON = false last, after the move to the center; one that
\* returned False was cut short by a bus operation that raised.
ShutdownPrecedesRelease ==
    (pc = "close_release") =>
        /\ ret = "true" => /\ Len(bus) > 0
                           /\ IsCoilWrite(bus[Len(bus)], SVON, 0)
                           /\ bus[Len(bus)].ok
                           /\ CenterMoveCommandedBefore(Len(bus))
        /\ ret = "false" => (Len(bus) > 0 /\ ~bus[Len(bus)].ok)

SlewStep == RoundDiv(slew_rate_limit * UmPerMm, update_rate_hz)

FramesInRange == \A i \in 1..Len(frames) : frames[i] # NaN /\ -6000 <= frames[i] /\ frames[i] <= 6000

\* The safety envelope has clamped the position the last calculate returned.
ClampedLastOutput ==
    /\ motion_call.fn \in {"calculate", "v2_calculate"}
    /\ safety_call = "clamp_smc_position"
    /\ value_arg = motion_call.out

\* C25: as long as the G-forces of the telemetry lie in [-6.0, 6.0], the
\* position calculate returns, passed through clamp_smc_position, lies
\* within the algorithm's [min_position, max_position] (and so within the
\* envelope's safe range), for either algorithm.
C25_PipelineWithinLimits ==
    (FramesInRange /\ ClampedLastOutput) =>
        /\ InSafeRange(value_ret)
        /\ UsesV1 => (motion_min_position_mm <= value_ret /\ value_ret <= motion_max_position_mm)
        /\ UsesV2 => (alg2_min_mm <= value_ret /\ value_ret <= alg2_max_mm)

\* C25 witness: MotionAlgorithmV2 was fed 6 g of acceleration, which asks for
\* a position below the stroke; calculate returned its lower limit and the
\* envelope passed that on.
C25_Witness ==
    /\ FramesInRange
    /\ ClampedLastOutput
    /\ motion_call.fn = "v2_calculate"
    /\ frames[Len(frames)] = 6000
    /\ value_ret = alg2_min_mm

\* C26: whenever the input MotionAlgorithm.calculate selects from the frame
\* (the negated g_force_longitudinal) is smaller in magnitude than the
\* deadband, the value it hands to the filter is exactly 0, whatever the
\* (finite) frames before.
C26_DeadbandZeroesInput ==
    (/\ motion_call.fn = "calculate"
     /\ FramesInRange
     /\ Abs(frames[Len(frames)]) < deadband) => motion_call.raw = 0

\* What calculate returns for the last of the frames fs when a newly
\* constructed instance is fed fs, for either algorithm.
RECURSIVE AfterFrames(_, _), AfterFramesV2(_, _)
AfterFrames(st, fs) ==
    IF fs = <<>> THEN st ELSE AfterFrames(MotionAlgorithm_step(st, Head(fs)).st, Tail(fs))

AfterFramesV2(st, fs) ==
    IF fs = <<>> THEN st ELSE AfterFramesV2(MotionAlgorithmV2_step(st, Head(fs)).st, Tail(fs))

FreshOutput(fs) ==
    MotionAlgorithm_step(AfterFrames(NewAlgorithm, SubSeq(fs, 1, Len(fs) - 1)), fs[Len(fs)]).out

FreshOutputV2(fs) ==
    MotionAlgorithmV2_step(AfterFramesV2(NewAlgorithmV2, SubSeq(fs, 1, Len(fs) - 1)), fs[Len(fs)]).out

\* C27: after reset(), what an instance returns for the frames it is fed
\* from then on is what a newly constructed instance returns for the same
\* frames, for MotionAlgorithm and for MotionAlgorithmV2 (the latter taken
\* with numbers in the fields that reset() leaves alone).
C27_ResetEqualsFresh ==
    [][/\ (was_reset /\ motion_call'.fn = "calculate" /\ frames' # frames) =>
              motion_call'.out = FreshOutput(frames')
       /\ (/\ was_reset /\ motion_call'.fn = "v2_calculate" /\ frames' # frames
           /\ algorithm2.last_g_force # NaN) =>
              motion_call'.out = FreshOutputV2(frames')]_vars

\* The center position of the algorithm the calls went to.
CenterOfAlgorithm == IF motion_call.fn = "v2_calculate" THEN alg2_center_mm ELSE motion_center_mm

\* calculate has returned for the n-th frame of a constant G-force g fed to
\* a new instance.
HeldFor(g, n) ==
    /\ motion_call.fn \in {"calculate", "v2_calculate"}
    /\ Len(frames) = n
    /\ ConstantFrames(g)

C29_ReleaseReturnsMonotonically ==
    [][(/\ motion_call'.fn = "calculate"
        /\ frames' # frames
        /\ Len(frames') > HoldFrames
        /\ frames'[1] = -2000) =>
          /\ Abs(motion_call'.out - motion_center_mm)
                 <= Abs(algorithm.current_position - motion_center_mm)
          /\ motion_call'.out >= motion_center_mm]_vars


(* C30 *)
\* The values a call wrote, or tried to write, to the POSITION registers.
PositionsWritten ==
    {UnpackInt32(bus[i].val) : i \in {j \in 1..Len(bus) : /\ bus[j].op = "write_registers"
                                                          /\ bus[j].addr = POSITION}}

\* C30: every value a send_position call writes to the position register
\* lies within the soft limits of its driver, [min_position_mm,
\* max_position_mm] for SMCDriver and [min_mm, max_mm] for SMCDriverV2,
\* whatever target was requested.
C30_SentPositionsWithinSoftLimits ==
    /\ call = "send_position" =>
          \A u \in PositionsWritten :
             PositionUnits(min_position_mm) <= u /\ u <= PositionUnits(max_position_mm)
    /\ call = "v2_send_position" =>
          \A u \in PositionsWritten :
             PositionUnits(v2_min_mm) <= u /\ u <= PositionUnits(v2_max_mm)

\* A send_position call has written a soft limit to the position register.
C30_Witness ==
    /\ call = "send_position"
    /\ PositionUnits(max_position_mm) \in PositionsWritten

(* ------------------------------------------------------------------ *)
(* C31 - C40                                                           *)
(* ------------------------------------------------------------------ *)
\* C31: on a connected SMCDriver whose bus writes succeed (every recorded
\* send_position call returned True), the statistics count every call once:
\* commands_sent + commands_skipped is the number of calls made.
C31_EveryCallCounted ==
    (\A i \in 1..Len(sends) : sends[i].ok) =>
        commands_sent + commands_skipped = Len(sends)

\* Three successful calls, at least one sent and at least one skipped.
C31_Witness ==
    /\ Len(sends) = 3
    /\ \A i \in 1..Len(sends) : sends[i].ok
    /\ commands_sent >= 1
    /\ commands_skipped >= 1

\* Values SafetyConfig.emergency_stop_timeout is configured with (seconds):
\* shorter than the default of EmergencyStop.reset's argument, and equal to it.
ConfiguredTimeouts == {1, ESTOP_TIMEOUT_S}

\* C32: after EmergencyStop.trigger, a call EmergencyStop.reset() (no
\* argument) made once the configured SafetyConfig.emergency_stop_timeout has
\* elapsed since the trigger returns True, leaves is_active() False and clears
\* the trigger time.
C32_ResetAfterConfiguredTimeout ==
    [][\A configured \in ConfiguredTimeouts :
          (/\ EmergencyStop_reset(DefaultResetTimeout)
           /\ es_trigger_time # NoTime
           /\ wallNow - es_trigger_time >= configured) =>
              /\ safety_ret' = "true"
              /\ ~es_active'
              /\ es_trigger_time' = NoTime]_vars

\* C33: for every integer v in the signed 32-bit range, _write_int32 emits
\* exactly two 16-bit words, high word first, that are the big-endian
\* two's-complement encoding of v (the high word carries the sign: v for
\* v >= 0, v + 2^32 otherwise), and _read_int32 applied to those two words
\* returns v.
C33_Int32RoundTrip ==
    /\ codec.fn # "none" =>
          /\ Len(codec.words) = 2
          /\ \A i \in 1..2 : codec.words[i] \in 0..65535
          /\ IF codec.value >= 0
             THEN /\ codec.words[1] < 32768
                  /\ codec.words[1] * 65536 + codec.words[2] = codec.value
             ELSE /\ codec.words[1] >= 32768
                  /\ (codec.words[1] - 65536) * 65536 + codec.words[2] = codec.value
    /\ codec.fn = "_read_int32" => codec.read = codec.value

\* A negative integer whose two words differ has been written and read back.
C33_Witness ==
    /\ codec.fn = "_read_int32"
    /\ codec.value = -65537
    /\ codec.words = <<65534, 65535>>

IsInputRead(e, addr) == e.op = "read_input" /\ e.addr = addr

\* The step of initialize a bus operation belongs to: 1 serial mode, 2 alarm
\* check, 3-4 reset pulse, 5 servo on, 6 servo-ready wait, 7-9 homing, 10 the
\* position read-backs and the center moves; 0 for any other operation.
InitStage(e) ==
    IF IsCoilWrite(e, INPUT_INVALID, 1) THEN 1
    ELSE IF IsInputRead(e, ALARM) THEN 2
    ELSE IF IsCoilWrite(e, RESET, 1) THEN 3
    ELSE IF IsCoilWrite(e, RESET, 0) THEN 4
    ELSE IF IsCoilWrite(e, SVON, 1) THEN 5
    ELSE IF IsInputRead(e, SVRE) THEN 6
    ELSE IF IsCoilWrite(e, SETUP, 1) THEN 7
    ELSE IF IsInputRead(e, SETON) THEN 8
    ELSE IF IsCoilWrite(e, SETUP, 0) THEN 9
    ELSE IF \/ e.op \in {"write_register", "write_registers", "read_registers"}
            \/ IsInputRead(e, BUSY) THEN 10
    ELSE 0

\* The steps that may follow operation e in the fixed order.
StagesAfter(e) ==
    LET stage == InitStage(e)
    IN  IF stage = 2 THEN (IF e.val = <<0>> THEN {3} ELSE {5})
        ELSE IF stage = 6
        THEN (IF e.val = <<1>> THEN (IF home_first THEN {7} ELSE {10}) ELSE {6})
        ELSE IF stage = 8 THEN (IF e.val = <<1>> THEN {9} ELSE {8})
        ELSE IF stage = 10 THEN {10}
        ELSE {stage + 1}

InitializeInOrder ==
    /\ \A i \in 1..Len(bus) : InitStage(bus[i]) # 0
    /\ Len(bus) > 0 => InitStage(bus[1]) = 1
    /\ \A i \in 1..(Len(bus) - 1) :
          /\ bus[i].ok
          /\ InitStage(bus[i + 1]) \in StagesAfter(bus[i])

\* C34: the bus operations of an initialize call follow one fixed order:
\* serial-mode coil; alarm check and, only if an alarm is active, the reset
\* pulse (assert, then de-assert); servo on; servo-ready wait; homing if
\* requested; center move. The initialized flag is set only by the step that
\* ends a call in which all of them succeeded, and a call on a driver that
\* is not connected returns False without any bus I/O.
C34_InitializeSequence ==
    /\ [](call = "initialize" =>
            /\ InitializeInOrder
            /\ ~connected => (bus = <<>> /\ pc = "idle" /\ ret = "false")
            /\ (pc = "idle" /\ ret = "true") =>
                  /\ initialized
                  /\ \A i \in 1..Len(bus) : bus[i].ok
                  /\ \E i \in 1..Len(bus) : IsStartWrite(bus[i]))
    /\ [][(call' = "initialize" /\ initialized' # initialized) =>
              (initialized' /\ pc' = "idle" /\ ret' = "true")]_vars

\* An initialize call with homing met an active alarm, pulsed the reset coil
\* and returned True.
C34_Witness ==
    /\ call = "initialize"
    /\ pc = "idle"
    /\ ret = "true"
    /\ home_first
    /\ \E i \in 1..Len(bus) : IsCoilWrite(bus[i], RESET, 0)
    /\ \E i \in 1..Len(bus) : IsCoilWrite(bus[i], SETUP, 0)

\* C35: in an initialize call with homing, the alarm input is read again
\* after the SETUP coil was cleared and before the center move's registers
\* are written, and if that read shows an alarm the reset coil is pulsed
\* (asserted, then de-asserted) before the first of those writes.
C35_AlarmRecheckedAfterHoming ==
    (call = "initialize" /\ home_first) =>
        \A j \in 1..Len(bus) :
            (bus[j].op = "write_register" /\ bus[j].addr = MOVEMENT_MODE) =>
                \E i \in 1..(j - 1) :
                    /\ IsInputRead(bus[i], ALARM)
                    /\ \E k \in 1..(i - 1) : IsCoilWrite(bus[k], SETUP, 0)
                    /\ bus[i].val = <<0>> =>
                          \E r \in (i + 1)..(j - 2) :
                              /\ IsCoilWrite(bus[r], RESET, 1)
                              /\ IsCoilWrite(bus[r + 1], RESET, 0)

\* bus[j] is the first register write of a move command
MoveBeginsAt(j) == bus[j].op = "write_register" /\ bus[j].addr = MOVEMENT_MODE

\* bus[r] is a read of the current position
PositionReadAt(r) == bus[r].op = "read_registers" /\ bus[r].addr = CURRENT_POSITION

\* C36: an initialize call commands the center move at most twice; the
\* second move follows a position read, made after the first, that differs
\* from center by more than the tolerance; and the position read after the
\* second move ends the call whatever it reports.
C36_CenterMoveAtMostTwice ==
    call = "initialize" =>
        LET moves == {j \in 1..Len(bus) : MoveBeginsAt(j)}
        IN  /\ Cardinality(moves) <= 2
            /\ \A j1 \in moves, j2 \in moves :
                  j1 < j2 =>
                     /\ PositionReadAt(j2 - 1)
                     /\ bus[j2 - 1].ok
                     /\ j1 < j2 - 1
                     /\ Abs(PositionMm(UnpackInt32(bus[j2 - 1].val)) - center_mm)
                           > center_tolerance
                     /\ \A r \in (j2 + 1)..Len(bus) :
                           PositionReadAt(r) => (r = Len(bus) /\ pc = "idle")

\* initialize returned after a second center move whose read-back was still
\* off center.
C36_Witness ==
    /\ call = "initialize"
    /\ pc = "idle"
    /\ Cardinality({j \in 1..Len(bus) : MoveBeginsAt(j)}) = 2
    /\ PositionReadAt(Len(bus))
    /\ bus[Len(bus)].ok
    /\ UnpackInt32(bus[Len(bus)].val) = 0

\* C37: the bus writes of one send_position call, of SMCDriver or of
\* SMCDriverV2, go to the position registers and to the operation-start
\* trigger only: no motion-profile register (mode, speed, acceleration,
\* deceleration, push parameters, areas, in-position width) is written.
C37_FastPathWritesPositionAndStartOnly ==
    call \in {"send_position", "v2_send_position"} =>
        \A i \in 1..Len(bus) :
            IsWrite(bus[i]) => bus[i].addr \in {POSITION, OPERATION_START}

\* C38: when an initialize call has returned, with True or with False, the
\* last value written to the SETUP coil is false: every successful write
\* SETUP = true of the call is followed by a successful write SETUP = false.
C38_SetupCoilReleased ==
    (call = "initialize" /\ pc = "idle") =>
        \A i \in 1..Len(bus) :
            (IsCoilWrite(bus[i], SETUP, 1) /\ bus[i].ok) =>
                \E j \in (i + 1)..Len(bus) : IsCoilWrite(bus[j], SETUP, 0) /\ bus[j].ok

\* C39: after an initialize call that returned False the driver is not
\* initialized (is_initialized is False), also when an earlier initialize
\* had succeeded.
C39_FailedInitializeClearsFlag ==
    (call = "initialize" /\ pc = "idle" /\ ret = "false") => ~initialized

\* C40: whenever initialize has returned True, the position read back after
\* the last center move is within the tolerance (10 mm) of center_mm.
C40_ReadyMeansAtCenter ==
    (call = "initialize" /\ pc = "idle" /\ ret = "true") =>
        /\ PositionReadAt(Len(bus))
        /\ Abs(PositionMm(UnpackInt32(bus[Len(bus)].val)) - center_mm) <= center_tolerance
====
